---- MODULE Spec2Model ----
(***************************************************************************)
(* SIREN: Memory-Driven Grey Wolf Optimizer (algorithms/mdgwo.py) and the  *)
(* fitness evaluator it optimizes against (models/objectives.py,           *)
(* models/system_model.py).                                                *)
(*                                                                         *)
(* Floating-point coordinates are modelled in fixed point: one unit of a   *)
(* position coordinate is a tenth (0.4 GHz is 4, host 2 is 20).            *)
(***************************************************************************)
EXTENDS Integers, Sequences, FiniteSets, TLC

VARIABLES
    pc,                    \* position of the caller / of MDGWO.optimize
    num_tasks,             \* MDGWO.num_tasks
    num_hosts,             \* MDGWO.num_hosts
    population_size,       \* MDGWO.population_size
    max_iterations,        \* MDGWO.max_iterations
    memory_decay,          \* MDGWO.memory_decay
    wolves,                \* MDGWO.wolves: sequence of Wolf records
    alpha, beta, delta,    \* leaders: index into wolves, 0 is None
    iteration,             \* loop variable of optimize
    self_iteration,        \* MDGWO.iteration
    best_fitness_history,  \* MDGWO.best_fitness_history
    k,                     \* index of the wolf the running pass is at
    ftab,                  \* the fitness function, as far as it has been applied
    returned,              \* the wolf optimize returned (0: nothing returned)
    best_schedule,         \* <<>> or <<result of get_best_schedule()>>
    error,                 \* the exception that ended the run ("none" if none)
    evals,                 \* how often each wolf was evaluated in this run
    moved,                 \* how often each wolf was moved in this generation
    epc,                   \* position of the caller of the fitness evaluator
    topology,              \* the FogCloudTopology
    tasks,                 \* ObjectiveFunction.tasks
    assignments,           \* Schedule.assignments
    wrapped,               \* <<>> or <<the position fitness_wrapper decoded>>
    called,                \* the evaluator method that was called
    result,                \* what the call returned or raised
    args,                  \* <<>> or the arguments of the topology lookup
    wpc,                   \* position of the caller of a single Wolf
    wolf,                  \* the Wolf: position, fitness, pbest, pbest_fitness
    wolf_num_tasks,        \* Wolf.num_tasks
    wolf_num_hosts,        \* Wolf.num_hosts
    observed,              \* the <<position, fitness>> of every evaluation so far
    decoded,               \* <<>> or <<what the last decode_position returned>>
    wcalled,               \* the Wolf operation that acted last
    np_random,             \* state of numpy's global generator: <<seed, draws made>>
    random_seed,           \* the argument of the last initialize_population
    run_log,               \* the drawn population and each generation's leaders
    first_run,             \* <<>> or <<what the first of two runs produced>>
    gen_pc,                \* position of a generation whose passes take any order
    gen_wolves,            \* the population of that generation
    gen_leaders,           \* its alpha, beta, delta
    gen_iteration,         \* its iteration index
    gen_ftab,              \* its fitness function, as far as applied
    gen_pending,           \* the wolves the running pass has not reached
    gen_start,             \* the population when the running pass began
    gen_order              \* the wolves the Update pass has taken, in order

ovars == <<pc, num_tasks, num_hosts, population_size, max_iterations, memory_decay,
           wolves, alpha, beta, delta, iteration, self_iteration,
           best_fitness_history, k, ftab, returned, best_schedule, error,
           evals, moved>>

evars == <<epc, topology, tasks, assignments, wrapped, called, result, args>>

wvars == <<wpc, wolf, wolf_num_tasks, wolf_num_hosts, observed, decoded, wcalled>>

rvars == <<np_random, random_seed, run_log, first_run>>

gvars == <<gen_pc, gen_wolves, gen_leaders, gen_iteration, gen_ftab, gen_pending,
           gen_start, gen_order>>

vars == <<ovars, evars, wvars, rvars, gvars>>

-----------------------------------------------------------------------------
(* Bounds of the model *)

MaxPop == 4
MaxIter == 2

(* float('inf'): larger than every fitness a fitness function returns *)
Inf == 2000000000

(* float('nan'): the result of 0 * inf; every comparison with it is false *)
NaN == 2000000001

(* the values a fitness function returns in the model *)
FitVals == {0, 1, 2}
DecaySchemes == {"linear", "exponential", "cosine"}
TaskCounts == {1, 2}
HostCounts == {0, 2}

-----------------------------------------------------------------------------
(* Arithmetic helpers *)

Min(a, b) == IF a <= b THEN a ELSE b
Max(a, b) == IF a >= b THEN a ELSE b

(* x whole units in tenths *)
Fx(x) == 10 * x

(* a / b rounded to the nearest integer, b > 0 *)
RDiv(a, b) == (2 * a + b) \div (2 * b)

(* np.clip(x, lo, hi) = minimum(maximum(x, lo), hi) *)
Clip(x, lo, hi) == Min(Max(x, lo), hi)

(* int(np.round(x)) for x in tenths: round half to even *)
NpRound(x) ==
    LET q == x \div 10
        r == x % 10
    IN  IF r < 5 THEN q
        ELSE IF r > 5 THEN q + 1
        ELSE IF q % 2 = 0 THEN q ELSE q + 1

(* exp(-x) in thousandths for x >= 0 in thousandths: the power series of
   np.exp, summed until its terms vanish in fixed point *)
RECURSIVE ExpSeries(_, _, _)
ExpSeries(x, n, term) ==
    IF term = 0 \/ n > 24 THEN 0
    ELSE LET next == (term * x) \div (1000 * n)
         IN  (IF n % 2 = 1 THEN 0 - next ELSE next) + ExpSeries(x, n + 1, next)

NpExpNeg(x) == Max(0, 1000 + ExpSeries(x, 1, 1000))

-----------------------------------------------------------------------------
(* Wolf *)

(* Wolf.__init__ *)
Wolf(position) ==
    [position |-> position, fitness |-> Inf, pbest |-> position, pbest_fitness |-> Inf]

(* mutant: the extra replicas are not wrapped into the host range *)
DecodeTaskNoWrap(position, nh, j) ==
    LET node_id == NpRound(position[3 * j + 1]) % nh
        replication == Max(1, Min(3, NpRound(position[3 * j + 2])))
    IN  [nodes |-> [r \in 1..replication |-> node_id + (r - 1)],
         frequency |-> Clip(position[3 * j + 3], 4, 20)]

(* one task's entry of Wolf.decode_position; j counts from 0 *)
DecodeTask(position, nh, j) ==
    LET idx_node == 3 * j
        idx_repl == 3 * j + 1
        idx_freq == 3 * j + 2
        node_cont == IF idx_node < Len(position) THEN position[idx_node + 1] ELSE 0
        node_id == NpRound(node_cont) % nh
        repl_cont == IF idx_repl < Len(position) THEN position[idx_repl + 1] ELSE Fx(1)
        replication == Max(1, Min(3, NpRound(repl_cont)))
        freq_cont == IF idx_freq < Len(position) THEN position[idx_freq + 1] ELSE Fx(2)
        frequency_ghz == Clip(freq_cont, 4, 20)
    IN  [nodes |-> [r \in 1..replication |-> (node_id + (r - 1)) % nh],
         frequency |-> frequency_ghz]

(* Wolf.decode_position: the schedule, or the exception of the modulo by zero *)
DecodePosition(position, nt, nh) ==
    IF nt > 0 /\ nh = 0
    THEN [err |-> "ZeroDivisionError", schedule |-> <<>>]
    ELSE [err |-> "none",
          schedule |-> [j \in 1..nt |-> DecodeTask(position, nh, j - 1)]]

(* mutant: an equal fitness also overwrites the personal best *)
UpdatePbestOnTie(w, new_fitness) ==
    IF new_fitness <= w.pbest_fitness
    THEN [w EXCEPT !.pbest = w.position, !.pbest_fitness = new_fitness]
    ELSE w

(* Wolf.update_pbest *)
UpdatePbest(w, new_fitness) ==
    IF new_fitness < w.pbest_fitness
    THEN [w EXCEPT !.pbest = w.position, !.pbest_fitness = new_fitness]
    ELSE w

-----------------------------------------------------------------------------
(* MDGWO *)

(* mutant: decode_position stores the clipped frequencies back *)
AfterDecodeInPlace(w) ==
    [w EXCEPT !.position =
        [i \in 1..Len(w.position) |->
            IF (i - 1) % 3 = 2 THEN Clip(w.position[i], 4, 20) ELSE w.position[i]]]

(* what decode_position leaves of the wolf: it assigns no attribute *)
AfterDecode(w) == w

(* mutant: a sort that puts the later of two equal wolves first *)
BeforeUnstable(ws, i, j) ==
    \/ ws[i].fitness < ws[j].fitness
    \/ ws[i].fitness = ws[j].fitness /\ i > j

(* sorted(self.wolves, key=lambda w: w.fitness): the sort is stable *)
Before(ws, i, j) ==
    \/ ws[i].fitness < ws[j].fitness
    \/ ws[i].fitness = ws[j].fitness /\ i < j

SortedWolves(ws) ==
    [r \in 1..Len(ws) |->
        CHOOSE i \in 1..Len(ws) :
            Cardinality({j \in 1..Len(ws) : Before(ws, j, i)}) = r - 1]

(* mutant: a missing leader slot is filled with the worst wolf *)
UpdateLeadersRepeatLast(ws) ==
    LET sorted_wolves == SortedWolves(ws)
    IN  [alpha |-> sorted_wolves[1],
         beta  |-> IF Len(sorted_wolves) > 1 THEN sorted_wolves[2]
                   ELSE sorted_wolves[Len(sorted_wolves)],
         delta |-> IF Len(sorted_wolves) > 2 THEN sorted_wolves[3]
                   ELSE sorted_wolves[Len(sorted_wolves)]]

(* MDGWO._update_leaders: the leader triple; defined for a non-empty population *)
UpdateLeaders(ws) ==
    LET sorted_wolves == SortedWolves(ws)
    IN  [alpha |-> sorted_wolves[1],
         beta  |-> IF Len(sorted_wolves) > 1 THEN sorted_wolves[2] ELSE sorted_wolves[1],
         delta |-> IF Len(sorted_wolves) > 2 THEN sorted_wolves[3] ELSE sorted_wolves[1]]

(* mutant: the coefficient is the elapsed share of the budget, not the remaining one *)
MemoryCoefficientElapsed(md, mi, t) == RDiv(1000 * t, Max(1, mi))

(* MDGWO._memory_coefficient, in thousandths; the exponential scheme divides by
   max_iterations *)
MemoryCoefficient(md, mi, t) ==
    IF md = "linear" THEN 1000 - RDiv(1000 * t, Max(1, mi))
    ELSE IF md = "exponential" THEN NpExpNeg(RDiv(2000 * t, mi))
    ELSE 1000 - RDiv(1000 * t, Max(1, mi))

(* the bounds update_wolf enforces on coordinate i (counted from 1) *)
EnforceBounds(x, i, nh) ==
    IF (i - 1) % 3 = 0 THEN Clip(x, 0, Fx(nh - 1))
    ELSE IF (i - 1) % 3 = 1 THEN Clip(x, Fx(1), Fx(3))
    ELSE Clip(x, 4, 20)

(* mutant: the third position read is the last wolf's, not delta's *)
UpdateWolfReadsLast(w, ws, a, b, d, md, mi, nh, t) ==
    LET eta == MemoryCoefficient(md, mi, t)
        new(i) == RDiv(1000 * (ws[a].position[i] + ws[b].position[i]
                                 + ws[Len(ws)].position[i])
                         + 3 * eta * (w.pbest[i] - w.position[i]),
                       3000)
    IN  [w EXCEPT !.position =
            [i \in 1..Len(w.position) |-> EnforceBounds(new(i), i, nh)]]

(* MDGWO.update_wolf for wolf w, the leaders not None *)
UpdateWolf(w, ws, a, b, d, md, mi, nh, t) ==
    LET eta == MemoryCoefficient(md, mi, t)
        new(i) == RDiv(1000 * (ws[a].position[i] + ws[b].position[i] + ws[d].position[i])
                         + 3 * eta * (w.pbest[i] - w.position[i]),
                       3000)
    IN  [w EXCEPT !.position =
            [i \in 1..Len(w.position) |-> EnforceBounds(new(i), i, nh)]]

(* mutant: the Update pass skips nobody *)
IsLeaderNever(i, a, b, d) == FALSE

(* mutant: the Update pass skips beta and delta only *)
IsLeaderNotAlpha(i, a, b, d) == i = b \/ i = d

(* mutant: the Update pass skips alpha only *)
IsLeaderAlphaOnly(i, a, b, d) == i = a

(* optimize, line 255: the wolves the Update pass skips *)
IsLeader(i, a, b, d) == i = a \/ i = b \/ i = d

(* mutant: the loop runs one generation too many *)
LoopContinuesInclusive(it, mi) == it <= mi

(* optimize, line 232: for iteration in range(self.max_iterations) *)
LoopContinues(it, mi) == it < mi

(* optimize, line 242: the best fitness recorded for the generation *)
BestFitness(ws, a) == IF a # 0 THEN ws[a].fitness ELSE Inf

(* optimize, line 261: return self.alpha *)
ReturnedWolf(a, b, d) == a

(* get_best_schedule: the decoding of alpha's position, {} without an alpha *)
GetBestScheduleOf(ws, a, nt, nh) ==
    IF a # 0 THEN DecodePosition(ws[a].position, nt, nh)
    ELSE [err |-> "none", schedule |-> <<>>]

(* initialize_population: what np.random.uniform draws for one task, the three
   coordinates in [0, num_hosts), [1, 3) and [0.4, 2.0) *)
DrawTriple(nh, b) ==
    IF b = 0 THEN <<0, Fx(1), 4>>
    ELSE <<Max(0, Fx(nh) - 1), Fx(3) - 1, 19>>

DrawTriples(nh) == { DrawTriple(nh, b) : b \in {0, 1} }

RECURSIVE Repeat(_, _)
Repeat(t, n) == IF n = 0 THEN <<>> ELSE t \o Repeat(t, n - 1)

DrawPositions(nt, nh) == { Repeat(t, nt) : t \in DrawTriples(nh) }

(* mutant: initialize_population does not seed the generator *)
SeedIgnored(state, seed) == state

(* np.random.seed(random_seed), line 130.  The state of numpy's global generator
   is <<seed, draws made>>: it fixes every later draw *)
Seeded(state, seed) == <<seed, 0>>

(* the block of np.random.uniform draws of one wolf, lines 137-139: which of
   the two sampled triples the generator yields in this state *)
Uniform(state) == ((state[1] \div (2 ^ state[2])) + (state[2] \div 4)) % 2

Advance(state) == <<state[1], state[2] + 1>>

(* initialize_population, lines 133-143: the positions of n wolves drawn from
   the generator in state `state` *)
RECURSIVE DrawPopulation(_, _, _, _)
DrawPopulation(state, n, nt, nh) ==
    IF n = 0 THEN <<>>
    ELSE <<Repeat(DrawTriple(nh, Uniform(state)), nt)>>
            \o DrawPopulation(Advance(state), n - 1, nt, nh)

(* the seeds that give every population of the sampled positions *)
Seeds(ps) == 0..((2 ^ ps) - 1)

-----------------------------------------------------------------------------
(* Cost model (models/system_model.py).  Units: times in milliseconds, active
   power in 1e-7 W, radio power in 1e-4 W, energy, penalty and fitness in
   thousandths, probabilities in thousandths, frequencies in tenths of a GHz, failure rates in 1e-4 per hour. *)

(* float arithmetic on the values above, with inf and nan *)
FAdd(a, b) ==
    IF a = NaN \/ b = NaN THEN NaN
    ELSE IF a = Inf \/ b = Inf THEN Inf
    ELSE a + b

(* a * b / scale for a, b >= 0 *)
FMulDiv(a, b, scale) ==
    IF a = NaN \/ b = NaN THEN NaN
    ELSE IF a = Inf \/ b = Inf THEN (IF a = 0 \/ b = 0 THEN NaN ELSE Inf)
    ELSE RDiv(a * b, scale)

FGt(a, b) == a # NaN /\ b # NaN /\ a > b
FLt(a, b) == a # NaN /\ b # NaN /\ a < b
IsFinite(a) == a # NaN /\ a # Inf

(* the result of a call: a value, or the exception it raised *)
Value(v) == [err |-> "none", val |-> v]
Raise(e) == [err |-> e, val |-> 0]

TxPowerW == 18000
RxPowerW == 12000
DvfsAlpha == 1
DvfsBeta == 0
DvfsGamma == 0
CloudCpuMips == 100000
CloudMemoryMb == 131072
CloudId == 100
DefaultLatencyMs == 50
DefaultBandwidthMbps == 100

(* FogNode: the dataclass with its default power coefficients *)
FogNode(id, cpu, mem, rate) ==
    [kind |-> "fog", node_id |-> id, cpu_mips |-> cpu, memory_mb |-> mem,
     failure_rate |-> rate, tx_power_w |-> TxPowerW, rx_power_w |-> RxPowerW,
     alpha |-> DvfsAlpha, beta |-> DvfsBeta, gamma |-> DvfsGamma]

(* CloudDataCenter: no power coefficients, no tx/rx power, no get_active_power;
   its failure rate of 1e-7 per hour is 0 at this resolution *)
CloudDataCenter(id) ==
    [kind |-> "cloud", center_id |-> id, cpu_mips |-> CloudCpuMips,
     memory_mb |-> CloudMemoryMb, failure_rate |-> 0]

(* Task *)
Task(id, workload, input, output, memory, deadline, crit) ==
    [task_id |-> id, workload_mi |-> workload, input_size_mb |-> input,
     output_size_mb |-> output, memory_requirement_mb |-> memory,
     deadline_s |-> deadline, criticality |-> crit, source_device_id |-> 0]

(* hasattr(host, name) *)
HasAttr(host, name) == name \in DOMAIN host

(* FogCloudTopology.__init__ *)
FogCloudTopology(fogs, clouds, latency, bandwidth) ==
    [fog_nodes |-> fogs, cloud_datacenters |-> clouds,
     network_latency_ms |-> latency, network_bandwidth_mbps |-> bandwidth,
     num_fog |-> Cardinality(DOMAIN fogs), num_cloud |-> Cardinality(DOMAIN clouds)]

(* mutant: a pair that is not stored gets the default at once *)
GetLatencyMsNoFallback(topo, source_id, dest_id) ==
    LET d == topo.network_latency_ms
    IN  IF <<source_id, dest_id>> \notin DOMAIN d
        THEN DefaultLatencyMs
        ELSE d[<<source_id, dest_id>>]

(* FogCloudTopology.get_latency_ms *)
GetLatencyMs(topo, source_id, dest_id) ==
    LET d == topo.network_latency_ms
    IN  IF <<source_id, dest_id>> \notin DOMAIN d
        THEN (IF <<dest_id, source_id>> \in DOMAIN d
              THEN d[<<dest_id, source_id>>] ELSE DefaultLatencyMs)
        ELSE d[<<source_id, dest_id>>]

(* FogCloudTopology.get_bandwidth_mbps *)
GetBandwidthMbps(topo, source_id, dest_id) ==
    LET d == topo.network_bandwidth_mbps
    IN  IF <<source_id, dest_id>> \notin DOMAIN d
        THEN (IF <<dest_id, source_id>> \in DOMAIN d
              THEN d[<<dest_id, source_id>>] ELSE DefaultBandwidthMbps)
        ELSE d[<<source_id, dest_id>>]

IsFogNode(topo, node_id) == node_id \in DOMAIN topo.fog_nodes
IsCloudCenter(topo, node_id) == node_id \in DOMAIN topo.cloud_datacenters

(* FogCloudTopology.get_host is not None *)
HostFound(topo, node_id) ==
    IsFogNode(topo, node_id) \/ IsCloudCenter(topo, node_id)

(* FogCloudTopology.get_host, for an id that is found *)
GetHost(topo, node_id) ==
    IF IsFogNode(topo, node_id) THEN topo.fog_nodes[node_id]
    ELSE topo.cloud_datacenters[node_id]

(* mutant: the execution time depends on the clock, 2.0 GHz the nominal one *)
TaskExecutionTimeScaled(task, host, frequency_ghz) ==
    IF host.cpu_mips > 0
    THEN RDiv(1000 * task.workload_mi * frequency_ghz, host.cpu_mips * 20)
    ELSE Inf

(* ReliabilityModel.task_execution_time: frequency_ghz is accepted and not used *)
TaskExecutionTime(task, host, frequency_ghz) ==
    IF host.cpu_mips > 0 THEN RDiv(1000 * task.workload_mi, host.cpu_mips) ELSE Inf

(* NetworkModel.total_transfer_time *)
TotalTransferTime(data_size_mb, bandwidth_mbps, latency_ms) ==
    FAdd(IF bandwidth_mbps > 0 THEN RDiv(8000 * data_size_mb, bandwidth_mbps) ELSE Inf,
         latency_ms)

(* math.exp(-x), x >= 0 in thousandths *)
RECURSIVE MathExpNeg(_)
MathExpNeg(x) ==
    IF x <= 1000 THEN NpExpNeg(x)
    ELSE RDiv(MathExpNeg(x \div 2) * MathExpNeg(x - (x \div 2)), 1000)

(* ReliabilityModel.node_success_probability: -0.0 * inf is nan *)
NodeSuccessProbability(node, execution_time_s) ==
    IF execution_time_s = Inf
    THEN (IF node.failure_rate = 0 THEN NaN ELSE 0)
    ELSE MathExpNeg(RDiv(node.failure_rate * execution_time_s, 36000000))

(* ReliabilityModel.task_success_with_replication *)
RECURSIVE FailureProb(_, _)
FailureProb(success_probs, n) ==
    IF n = 0 THEN 1000
    ELSE LET rest == FailureProb(success_probs, n - 1)
         IN  IF rest = NaN \/ success_probs[n] = NaN THEN NaN
             ELSE RDiv(rest * (1000 - success_probs[n]), 1000)

TaskSuccessWithReplication(success_probs) ==
    IF Len(success_probs) = 0 THEN 0
    ELSE LET failure_prob == FailureProb(success_probs, Len(success_probs))
         IN  IF failure_prob = NaN THEN NaN ELSE 1000 - failure_prob

(* FogNode.get_active_power *)
GetActivePower(node, frequency_ghz) ==
    node.alpha * frequency_ghz * frequency_ghz * frequency_ghz
        + node.beta * frequency_ghz + node.gamma

(* EnergyModel.computation_energy: a host without get_active_power raises *)
ComputationEnergy(node, frequency_ghz, execution_time_s) ==
    IF node.kind # "fog" THEN Raise("AttributeError")
    ELSE Value(FMulDiv(GetActivePower(node, frequency_ghz), execution_time_s, 10000000))

(* EnergyModel.communication_energy *)
CommunicationEnergy(transfer_time_s, tx_power_w, rx_power_w) ==
    FMulDiv((tx_power_w + rx_power_w) * 2, transfer_time_s, 10000)

(* NetworkModel.task_total_time, host found *)
TaskTotalTime(task, device_id, host, frequency_ghz, topo) ==
    LET host_id == IF HasAttr(host, "node_id") THEN host.node_id ELSE host.center_id
        t_trans_in == TotalTransferTime(task.input_size_mb,
                          GetBandwidthMbps(topo, device_id, host_id),
                          GetLatencyMs(topo, device_id, host_id))
        exec_time == TaskExecutionTime(task, host, frequency_ghz)
        t_trans_out == TotalTransferTime(task.output_size_mb,
                          GetBandwidthMbps(topo, host_id, device_id),
                          GetLatencyMs(topo, host_id, device_id))
    IN  FAdd(FAdd(t_trans_in, exec_time), t_trans_out)

-----------------------------------------------------------------------------
(* Fitness evaluator (models/objectives.py).  A schedule's asg map a
   task id to [nodes |-> <<host ids>>, frequency |-> f]. *)

PenaltyCpu == 10000
PenaltyMemory == 10000
PenaltyDeadline == 100000
PenaltyReliability == 100000
MinReliability == 990
BetaEnergy == 6
BetaReliability == 4
MaxPenalty == 1

(* the sum of a list of results, left to right: the first exception ends it *)
RECURSIVE SumValues(_, _)
SumValues(results, n) ==
    IF n = 0 THEN Value(0)
    ELSE LET rest == SumValues(results, n - 1)
         IN  IF rest.err # "none" THEN rest
             ELSE IF results[n].err # "none" THEN results[n]
             ELSE Value(FAdd(rest.val, results[n].val))

(* the sum of f[x] over the x in S *)
RECURSIVE SetSum(_, _)
SetSum(S, f) ==
    IF S = {} THEN 0
    ELSE LET x == CHOOSE y \in S : TRUE
         IN  f[x] + SetSum(S \ {x}, f)

(* energy_consumption, lines 70-91: one replica of one task *)
ReplicaEnergy(topo, task, node_id, frequency_ghz) ==
    IF ~HostFound(topo, node_id) THEN Value(0)
    ELSE LET host == GetHost(topo, node_id)
             exec_time == TaskExecutionTime(task, host, frequency_ghz)
             comp_energy == ComputationEnergy(host, frequency_ghz, exec_time)
             device_id == task.source_device_id
             transfer_time_in ==
                 TotalTransferTime(task.input_size_mb,
                                   GetBandwidthMbps(topo, device_id, node_id),
                                   GetLatencyMs(topo, device_id, node_id))
         IN  IF comp_energy.err # "none" THEN comp_energy
             ELSE IF ~HasAttr(host, "tx_power_w") THEN Raise("AttributeError")
             ELSE Value(FAdd(comp_energy.val,
                             CommunicationEnergy(transfer_time_in, host.tx_power_w,
                                                 host.rx_power_w)))

(* ObjectiveFunction.energy_consumption *)
EnergyConsumption(topo, tks, asg) ==
    LET OfTask(task) ==
            IF task.task_id \notin DOMAIN asg THEN Value(0)
            ELSE LET a == asg[task.task_id]
                 IN  SumValues([r \in 1..Len(a.nodes) |->
                                   ReplicaEnergy(topo, task, a.nodes[r], a.frequency)],
                               Len(a.nodes))
    IN  SumValues([i \in 1..Len(tks) |-> OfTask(tks[i])], Len(tks))

(* system_reliability, lines 123-132: a replica on a missing host succeeds with
   probability 0 *)
SuccessProbs(topo, task, node_ids, frequency_ghz) ==
    [r \in 1..Len(node_ids) |->
        IF ~HostFound(topo, node_ids[r]) THEN 0
        ELSE LET host == GetHost(topo, node_ids[r])
             IN  NodeSuccessProbability(host,
                     TaskExecutionTime(task, host, frequency_ghz))]

(* system_reliability, lines 112-136: one task's success probability *)
TaskSuccess(topo, task, asg) ==
    IF task.task_id \notin DOMAIN asg THEN 0
    ELSE TaskSuccessWithReplication(
             SuccessProbs(topo, task, asg[task.task_id].nodes,
                          asg[task.task_id].frequency))

RECURSIVE TotalSuccessProb(_, _, _, _)
TotalSuccessProb(topo, tks, asg, n) ==
    IF n = 0 THEN 0
    ELSE FAdd(TotalSuccessProb(topo, tks, asg, n - 1),
              TaskSuccess(topo, tks[n], asg))

(* ObjectiveFunction.system_reliability *)
SystemReliability(topo, tks, asg) ==
    IF Len(tks) = 0 THEN Value(0)
    ELSE LET total == TotalSuccessProb(topo, tks, asg, Len(tks))
         IN  Value(IF total = NaN THEN NaN ELSE RDiv(total, Len(tks)))

(* penalty_function, lines 158-167 and 177-186: the hosts that carry load *)
LoadedNodes(tks, asg) ==
    UNION { {asg[tks[i].task_id].nodes[r] :
                r \in 1..Len(asg[tks[i].task_id].nodes)} :
            i \in {j \in 1..Len(tks) : tks[j].task_id \in DOMAIN asg} }

(* mutant: a host that a task lists twice is loaded once by it *)
NodeLoadOncePerTask(tks, asg, node_id, demand) ==
    LET Listed(i) ==
            IF tks[i].task_id \notin DOMAIN asg THEN 0
            ELSE LET ns == asg[tks[i].task_id].nodes
                 IN  IF \E r \in 1..Len(ns) : ns[r] = node_id THEN tks[i][demand] ELSE 0
    IN  SetSum(1..Len(tks), [i \in 1..Len(tks) |-> Listed(i)])

(* the load of a host: every listing of the host adds the task's demand, the
   task attribute named by demand *)
NodeLoad(tks, asg, node_id, demand) ==
    LET Listed(i) ==
            IF tks[i].task_id \notin DOMAIN asg THEN 0
            ELSE LET ns == asg[tks[i].task_id].nodes
                 IN  Cardinality({r \in 1..Len(ns) : ns[r] = node_id}) * tks[i][demand]
    IN  SetSum(1..Len(tks), [i \in 1..Len(tks) |-> Listed(i)])

(* penalty_function, lines 169-174 and 188-193: load / capacity divides by the
   capacity whatever it is *)
CapacityPenalty(topo, tks, asg, coeff, demand, capacity) ==
    LET loaded == {n \in LoadedNodes(tks, asg) : HostFound(topo, n)}
        Over(n) ==
            LET cap == GetHost(topo, n)[capacity]
                load == NodeLoad(tks, asg, n, demand)
            IN  IF cap > 0 /\ load > cap THEN coeff * RDiv(1000 * (load - cap), cap) ELSE 0
    IN  IF \E n \in loaded : GetHost(topo, n)[capacity] = 0
        THEN Raise("ZeroDivisionError")
        ELSE Value(SetSum(loaded, [n \in loaded |-> Over(n)]))

CpuPenalty(topo, tks, asg) ==
    CapacityPenalty(topo, tks, asg, PenaltyCpu,
                    "workload_mi", "cpu_mips")

MemoryPenalty(topo, tks, asg) ==
    CapacityPenalty(topo, tks, asg, PenaltyMemory,
                    "memory_requirement_mb", "memory_mb")

(* penalty_function, line 207: if node_id *)
Truthy(node_ids) == Len(node_ids) > 0 /\ node_ids[1] # 0

(* penalty_function, lines 196-213: the deadline term of one task; a first
   replica that is not found reaches task_total_time as None *)
DeadlineOfTask(topo, task, asg) ==
    IF task.task_id \notin DOMAIN asg THEN Value(1000 * PenaltyDeadline)
    ELSE LET node_ids == asg[task.task_id].nodes
         IN  IF ~Truthy(node_ids) THEN Value(0)
             ELSE IF ~HostFound(topo, node_ids[1]) THEN Raise("AttributeError")
             ELSE IF FGt(TaskTotalTime(task, task.source_device_id,
                                       GetHost(topo, node_ids[1]),
                                       asg[task.task_id].frequency, topo),
                         task.deadline_s)
                  THEN Value(1000 * PenaltyDeadline)
                  ELSE Value(0)

DeadlinePenalty(topo, tks, asg) ==
    SumValues([i \in 1..Len(tks) |-> DeadlineOfTask(topo, tks[i], asg)],
              Len(tks))

(* mutant: only the first registered replica counts *)
FoundSuccessFirstOnly(topo, task, node_ids, frequency_ghz) ==
    LET found == SelectSeq(node_ids, LAMBDA n : HostFound(topo, n))
    IN  TaskSuccessWithReplication(
            SuccessProbs(topo, task, IF found = <<>> THEN <<>> ELSE <<Head(found)>>,
                         frequency_ghz))

(* penalty_function, lines 228-236: the replicas on hosts that are found *)
FoundSuccess(topo, task, node_ids, frequency_ghz) ==
    LET found == SelectSeq(node_ids, LAMBDA n : HostFound(topo, n))
    IN  TaskSuccessWithReplication(SuccessProbs(topo, task, found, frequency_ghz))

(* mutant: the criticality of the task is not looked at *)
ReliabilityOfTaskAnyCriticality(topo, task, asg) ==
    IF task.task_id \notin DOMAIN asg THEN 1000 * PenaltyReliability
    ELSE LET task_success ==
                 FoundSuccess(topo, task, asg[task.task_id].nodes,
                              asg[task.task_id].frequency)
         IN  IF FLt(task_success, MinReliability)
             THEN PenaltyReliability * (MinReliability - task_success)
             ELSE 0

(* penalty_function, lines 216-239: the reliability term of one task *)
ReliabilityOfTask(topo, task, asg) ==
    IF task.criticality = 0 THEN 0
    ELSE IF task.task_id \notin DOMAIN asg THEN 1000 * PenaltyReliability
    ELSE LET task_success ==
                 FoundSuccess(topo, task, asg[task.task_id].nodes,
                              asg[task.task_id].frequency)
         IN  IF FLt(task_success, MinReliability)
             THEN PenaltyReliability * (MinReliability - task_success)
             ELSE 0

ReliabilityPenalty(topo, tks, asg) ==
    LET Of(i) == ReliabilityOfTask(topo, tks[i], asg)
    IN  Value(SetSum(1..Len(tks), [i \in 1..Len(tks) |-> Of(i)]))

(* ObjectiveFunction.penalty_function: the four terms in the order of the code *)
PenaltyFunction(topo, tks, asg) ==
    SumValues(<<CpuPenalty(topo, tks, asg),
                MemoryPenalty(topo, tks, asg),
                DeadlinePenalty(topo, tks, asg),
                ReliabilityPenalty(topo, tks, asg)>>, 4)

(* ObjectiveFunction.fitness *)
Fitness(topo, tks, asg) ==
    LET energy == EnergyConsumption(topo, tks, asg)
        reliability == SystemReliability(topo, tks, asg)
        penalty == PenaltyFunction(topo, tks, asg)
    IN  IF energy.err # "none" THEN energy
        ELSE IF reliability.err # "none" THEN reliability
        ELSE IF penalty.err # "none" THEN penalty
        ELSE IF energy.val = NaN \/ reliability.val = NaN THEN Value(NaN)
        ELSE IF energy.val = Inf THEN Value(Inf)
        ELSE Value(RDiv(BetaEnergy * energy.val, 10)
                     - BetaReliability * 100 * reliability.val + penalty.val)

-----------------------------------------------------------------------------
(* The optimizer as a state machine *)

Init ==
    /\ pc = "new"
    /\ num_tasks = 0
    /\ num_hosts = 0
    /\ population_size = 0
    /\ max_iterations = 0
    /\ memory_decay = "linear"
    /\ wolves = <<>>
    /\ alpha = 0
    /\ beta = 0
    /\ delta = 0
    /\ iteration = 0
    /\ self_iteration = 0
    /\ best_fitness_history = <<>>
    /\ k = 0
    /\ ftab = <<>>
    /\ returned = 0
    /\ best_schedule = <<>>
    /\ error = "none"
    /\ evals = <<>>
    /\ moved = <<>>
    /\ epc = "start"
    /\ topology = FogCloudTopology(<<>>, <<>>, <<>>, <<>>)
    /\ tasks = <<>>
    /\ assignments = <<>>
    /\ wrapped = <<>>
    /\ called = "none"
    /\ result = Value(0)
    /\ args = <<>>
    /\ wpc = "new"
    /\ wolf = Wolf(<<>>)
    /\ wolf_num_tasks = 0
    /\ wolf_num_hosts = 0
    /\ observed = <<>>
    /\ decoded = <<>>
    /\ wcalled = "none"
    /\ np_random = <<0, 0>>
    /\ random_seed = 0
    /\ run_log = [population |-> <<>>, leaders |-> <<>>]
    /\ first_run = <<>>
    /\ gen_pc = "new"
    /\ gen_wolves = <<>>
    /\ gen_leaders = [alpha |-> 0, beta |-> 0, delta |-> 0]
    /\ gen_iteration = 0
    /\ gen_ftab = <<>>
    /\ gen_pending = {}
    /\ gen_start = <<>>
    /\ gen_order = <<>>

(* MDGWO.__init__: stores its arguments, whatever they are *)
Construct ==
    /\ UNCHANGED <<evars, wvars, rvars, gvars>>
    /\ pc = "new"
    /\ \E nt \in TaskCounts, nh \in HostCounts, ps \in 0..MaxPop,
          mi \in 0..MaxIter, md \in DecaySchemes :
          /\ num_tasks' = nt
          /\ num_hosts' = nh
          /\ population_size' = ps
          /\ max_iterations' = mi
          /\ memory_decay' = md
    /\ wolves' = <<>>
    /\ alpha' = 0
    /\ beta' = 0
    /\ delta' = 0
    /\ self_iteration' = 0
    /\ best_fitness_history' = <<>>
    /\ pc' = "constructed"
    /\ UNCHANGED <<iteration, k, ftab, returned, best_schedule, error, evals, moved>>

(* MDGWO.initialize_population: draws the population, then ranks it; the ranking
   of an empty population raises IndexError *)
InitializePopulationWith(seed) ==
    /\ UNCHANGED <<evars, wvars, gvars>>
    /\ random_seed' = seed
    /\ LET ws == DrawPopulation(Seeded(np_random, seed), population_size,
                                num_tasks, num_hosts)
       IN  /\ wolves' = [i \in 1..population_size |-> Wolf(ws[i])]
           /\ run_log' = [population |-> ws, leaders |-> <<>>]
    /\ np_random' = <<Seeded(np_random, seed)[1],
                      Seeded(np_random, seed)[2] + population_size>>
    /\ IF population_size = 0
       THEN /\ error' = "IndexError"
            /\ pc' = "raised"
            /\ UNCHANGED <<alpha, beta, delta>>
       ELSE /\ alpha' = UpdateLeaders(wolves').alpha
            /\ beta' = UpdateLeaders(wolves').beta
            /\ delta' = UpdateLeaders(wolves').delta
            /\ pc' = "initialized"
            /\ UNCHANGED error
    /\ evals' = [i \in 1..population_size |-> 0]
    /\ moved' = [i \in 1..population_size |-> 0]
    /\ UNCHANGED <<num_tasks, num_hosts, population_size, max_iterations, memory_decay,
                   iteration, self_iteration, best_fitness_history, k, ftab, returned,
                   best_schedule>>

(* optimizer.initialize_population(random_seed) on the constructed optimizer *)
InitializePopulation ==
    /\ pc = "constructed"
    /\ \E seed \in Seeds(population_size) : InitializePopulationWith(seed)
    /\ UNCHANGED first_run

(* the runs that are repeated *)
RerunScope == population_size = 4 /\ num_tasks = 1 /\ num_hosts = 2

(* the finished run is repeated on the same optimizer: initialize_population
   is called again with the same seed, what the first run produced is kept *)
Rerun ==
    /\ pc = "done"
    /\ first_run = <<>>
    /\ RerunScope
    /\ first_run' = <<[population |-> run_log.population,
                       leaders |-> run_log.leaders,
                       curve |-> best_fitness_history,
                       position |-> wolves[returned].position]>>
    /\ InitializePopulationWith(random_seed)

(* optimize, lines 227-230: a call on the constructed or initialized optimizer *)
OptimizeStart ==
    /\ UNCHANGED <<evars, wvars, rvars, gvars>>
    /\ pc \in {"constructed", "initialized"}
    /\ best_fitness_history' = <<>>
    /\ iteration' = 0
    /\ pc' = "loop"
    /\ UNCHANGED <<num_tasks, num_hosts, population_size, max_iterations, memory_decay,
                   wolves, alpha, beta, delta, self_iteration, k, ftab, returned,
                   best_schedule, error, evals, moved>>

(* optimize, line 232: the loop enters a generation *)
BeginGeneration ==
    /\ UNCHANGED <<evars, wvars, rvars, gvars>>
    /\ pc = "loop"
    /\ LoopContinues(iteration, max_iterations)
    /\ k' = 1
    /\ pc' = IF Len(wolves) = 0 THEN "rank" ELSE "evaluate"
    /\ UNCHANGED <<num_tasks, num_hosts, population_size, max_iterations, memory_decay,
                   wolves, alpha, beta, delta, iteration, self_iteration,
                   best_fitness_history, ftab, returned, best_schedule, error,
                   evals, moved>>

(* mutant: one fused loop, each wolf moved right after its evaluation *)
EvaluateAndMove ==
    /\ UNCHANGED <<evars, wvars, rvars, gvars>>
    /\ pc = "evaluate"
    /\ LET p == wolves[k].position
       IN  \E v \in FitVals :
              /\ p \in DOMAIN ftab => v = ftab[p]
              /\ ftab' = IF p \in DOMAIN ftab THEN ftab ELSE ftab @@ (p :> v)
              /\ LET w == UpdatePbest([wolves[k] EXCEPT !.fitness = v], v)
                 IN  wolves' = [wolves EXCEPT ![k] =
                        IF alpha = 0 \/ IsLeader(k, alpha, beta, delta) THEN w
                        ELSE UpdateWolf(w, wolves, alpha, beta, delta, memory_decay,
                                        max_iterations, num_hosts, iteration)]
    /\ evals' = [evals EXCEPT ![k] = @ + 1]
    /\ IF k = Len(wolves)
       THEN pc' = "rank" /\ k' = 1
       ELSE pc' = "evaluate" /\ k' = k + 1
    /\ UNCHANGED <<num_tasks, num_hosts, population_size, max_iterations, memory_decay,
                   alpha, beta, delta, iteration, self_iteration, best_fitness_history,
                   returned, best_schedule, error, moved>>

(* optimize, lines 234-236: wolf k is evaluated; the fitness function is
   deterministic: a position it has seen gets the value it got *)
Evaluate ==
    /\ UNCHANGED <<evars, wvars, rvars, gvars>>
    /\ pc = "evaluate"
    /\ LET p == wolves[k].position
       IN  \E v \in FitVals :
              /\ p \in DOMAIN ftab => v = ftab[p]
              /\ ftab' = IF p \in DOMAIN ftab THEN ftab ELSE ftab @@ (p :> v)
              /\ wolves' = [wolves EXCEPT ![k] = UpdatePbest([@ EXCEPT !.fitness = v], v)]
    /\ evals' = [evals EXCEPT ![k] = @ + 1]
    /\ IF k = Len(wolves)
       THEN pc' = "rank" /\ k' = 1
       ELSE pc' = "evaluate" /\ k' = k + 1
    /\ UNCHANGED <<num_tasks, num_hosts, population_size, max_iterations, memory_decay,
                   alpha, beta, delta, iteration, self_iteration, best_fitness_history,
                   returned, best_schedule, error, moved>>

(* optimize, lines 239-243: the leaders are updated and the best fitness recorded *)
RankLeaders ==
    /\ UNCHANGED <<evars, wvars, gvars>>
    /\ UNCHANGED <<np_random, random_seed, first_run>>
    /\ pc = "rank"
    /\ IF Len(wolves) = 0
       THEN /\ error' = "IndexError"
            /\ pc' = "raised"
            /\ UNCHANGED <<alpha, beta, delta, best_fitness_history, moved, run_log>>
       ELSE /\ alpha' = UpdateLeaders(wolves).alpha
            /\ beta' = UpdateLeaders(wolves).beta
            /\ delta' = UpdateLeaders(wolves).delta
            /\ run_log' = [run_log EXCEPT !.leaders =
                             Append(@, <<alpha', beta', delta'>>)]
            /\ best_fitness_history' =
                  Append(best_fitness_history, BestFitness(wolves, alpha'))
            /\ moved' = [i \in 1..Len(wolves) |-> 0]
            /\ pc' = "update"
            /\ UNCHANGED error
    /\ k' = 1
    /\ UNCHANGED <<num_tasks, num_hosts, population_size, max_iterations, memory_decay,
                   wolves, iteration, self_iteration, ftab, returned, best_schedule,
                   evals>>

(* optimize, lines 254-256: wolf k is moved unless it is a leader *)
UpdateStep ==
    /\ UNCHANGED <<evars, wvars, rvars, gvars>>
    /\ pc = "update"
    /\ IF IsLeader(k, alpha, beta, delta)
       THEN UNCHANGED <<wolves, moved>>
       ELSE /\ wolves' = [wolves EXCEPT ![k] =
                  UpdateWolf(wolves[k], wolves, alpha, beta, delta, memory_decay,
                             max_iterations, num_hosts, iteration)]
            /\ moved' = [moved EXCEPT ![k] = @ + 1]
    /\ IF k = Len(wolves)
       THEN pc' = "enditer" /\ k' = 1
       ELSE pc' = "update" /\ k' = k + 1
    /\ UNCHANGED <<num_tasks, num_hosts, population_size, max_iterations, memory_decay,
                   alpha, beta, delta, iteration, self_iteration, best_fitness_history,
                   ftab, returned, best_schedule, error, evals>>

(* optimize, line 258, and the loop's step *)
EndIteration ==
    /\ UNCHANGED <<evars, wvars, rvars, gvars>>
    /\ pc = "enditer"
    /\ self_iteration' = iteration
    /\ iteration' = iteration + 1
    /\ pc' = "loop"
    /\ UNCHANGED <<num_tasks, num_hosts, population_size, max_iterations, memory_decay,
                   wolves, alpha, beta, delta, best_fitness_history, k, ftab, returned,
                   best_schedule, error, evals, moved>>

(* optimize, lines 260-261: the log line reads self.alpha.fitness, then alpha is
   returned *)
FinishOptimize ==
    /\ UNCHANGED <<evars, wvars, rvars, gvars>>
    /\ pc = "loop"
    /\ ~LoopContinues(iteration, max_iterations)
    /\ IF alpha = 0
       THEN error' = "AttributeError" /\ pc' = "raised" /\ UNCHANGED returned
       ELSE returned' = ReturnedWolf(alpha, beta, delta) /\ pc' = "done" /\ UNCHANGED error
    /\ UNCHANGED <<num_tasks, num_hosts, population_size, max_iterations, memory_decay,
                   wolves, alpha, beta, delta, iteration, self_iteration,
                   best_fitness_history, k, ftab, best_schedule, evals, moved>>

(* MDGWO.get_best_schedule, called on the finished run *)
GetBestSchedule ==
    /\ UNCHANGED <<evars, wvars, rvars, gvars>>
    /\ pc = "done"
    /\ LET r == GetBestScheduleOf(wolves, alpha, num_tasks, num_hosts)
       IN  IF r.err = "none"
           THEN best_schedule' = <<r.schedule>> /\ pc' = "fetched" /\ UNCHANGED error
           ELSE error' = r.err /\ pc' = "raised" /\ UNCHANGED best_schedule
    /\ UNCHANGED <<num_tasks, num_hosts, population_size, max_iterations, memory_decay,
                   wolves, alpha, beta, delta, iteration, self_iteration,
                   best_fitness_history, k, ftab, returned, evals, moved>>

Next ==
    \/ Construct
    \/ InitializePopulation
    \/ OptimizeStart
    \/ BeginGeneration
    \/ Evaluate
    \/ RankLeaders
    \/ UpdateStep
    \/ EndIteration
    \/ FinishOptimize
    \/ GetBestSchedule
    \/ Rerun

Spec == Init /\ [][Next]_vars

-----------------------------------------------------------------------------
(* The fitness evaluator and its callers (tests/conftest.py, scripts/cli.py) as
   a state machine *)

MaxNodes == 2

(* a host id that no topology registers *)
MissingId == 7

TaskCountsE == {1, 2}
HostProfiles == {"normal", "zero_cpu", "zero_memory", "unreliable", "zero_cpu_no_failure"}
TaskProfiles == {"light", "heavy", "critical", "urgent"}

(* the fog nodes the callers build: ids 0..nodes-1; the last one has the profile *)
MakeFogNode(i, profile) ==
    IF profile = "zero_cpu" THEN FogNode(i, 0, 2048, 1)
    ELSE IF profile = "zero_memory" THEN FogNode(i, 2000, 0, 1)
    ELSE IF profile = "unreliable" THEN FogNode(i, 2000, 2048, 360000)
    ELSE IF profile = "zero_cpu_no_failure" THEN FogNode(i, 0, 2048, 0)
    ELSE FogNode(i, 2000, 2048, 1)

MakeFogNodes(nodes, profile) ==
    [i \in 0..(nodes - 1) |->
        MakeFogNode(i, IF i = nodes - 1 THEN profile ELSE "normal")]

(* the one cloud datacenter of the callers *)
MakeCloud == [c \in {CloudId} |-> CloudDataCenter(CloudId)]

(* the latency and bandwidth tables: every ordered pair of fog nodes with a
   value of its own as run_demo builds them, or one direction of one link only *)
FullTable(nodes, up, down) ==
    [pr \in {q \in (0..(nodes - 1)) \X (0..(nodes - 1)) : q[1] # q[2]} |->
        IF pr[1] < pr[2] THEN up ELSE down]

OneLink(v) == [pr \in {<<0, 1>>} |-> v]

Networks(nodes) ==
    { [latency |-> FullTable(nodes, 10, 25), bandwidth |-> FullTable(nodes, 100, 400)],
      [latency |-> OneLink(20), bandwidth |-> OneLink(200)],
      [latency |-> OneLink(20), bandwidth |-> OneLink(0)],
      [latency |-> OneLink(20), bandwidth |-> OneLink(0 - 5)] }

(* the tasks the callers build: task j has id j - 1 and comes from device 0 *)
MakeTask(id, profile) ==
    IF profile = "heavy" THEN Task(id, 4000, 10, 5, 4096, 1000, 0)
    ELSE IF profile = "critical" THEN Task(id, 3000, 10, 5, 256, 10000, 1)
    ELSE IF profile = "urgent" THEN Task(id, 1000, 10, 5, 256, 1000, 0)
    ELSE Task(id, 1000, 10, 5, 256, 10000, 0)

(* the task lists of n tasks: any first task, then light or critical ones *)
TaskLists(n) ==
    { profiles \in [1..n -> TaskProfiles] :
        \A j \in 2..n : profiles[j] \in {"light", "critical"} }

(* the arguments of Schedule.assign_task *)
AssignChoices ==
    ({ <<>>, <<0>>, <<1>>, <<0, 1>>, <<1, 1>>, <<CloudId>>, <<MissingId>>,
       <<0, MissingId>> } \X {20})
    \cup ({ <<0>>, <<0, 1>> } \X {4})

(* the positions fitness_wrapper is called with *)
WrapperPositions(nt, nh) ==
    DrawPositions(nt, nh) \cup { Repeat(<<Fx(nh) - 6, Fx(1), 20>>, nt) }

(* the topology run_demo and run_full build: fog nodes 0..nodes-1 of positive
   capacity, one cloud, a link for every ordered pair of fog nodes *)
EntryPointTopology(topo) ==
    /\ \A i \in DOMAIN topo.fog_nodes :
          topo.fog_nodes[i].cpu_mips > 0 /\ topo.fog_nodes[i].memory_mb > 0
    /\ DOMAIN topo.network_bandwidth_mbps = DOMAIN FullTable(topo.num_fog, 0, 0)

(* fitness_wrapper, cli.py lines 77-80: the decoded schedule as assignments *)
ScheduleOf(schedule_dict) ==
    [task_id \in 0..(Len(schedule_dict) - 1) |-> schedule_dict[task_id + 1]]

(* FogCloudTopology(fog_nodes, cloud, latency_dict, bandwidth_dict) *)
NewTopology ==
    /\ epc = "start"
    /\ \E nodes \in 1..MaxNodes, profile \in HostProfiles :
          \E net \in Networks(nodes) :
              topology' = FogCloudTopology(MakeFogNodes(nodes, profile), MakeCloud,
                                           net.latency, net.bandwidth)
    /\ epc' = "topology"
    /\ UNCHANGED <<tasks, assignments, wrapped, called, result, args>>
    /\ UNCHANGED <<ovars, wvars, rvars, gvars>>

(* ObjectiveFunction(topology, tasks) *)
NewObjectiveFunction ==
    /\ epc = "topology"
    /\ \E n \in TaskCountsE :
          \E profiles \in TaskLists(n) :
              tasks' = [j \in 1..n |-> MakeTask(j - 1, profiles[j])]
    /\ epc' = "objective"
    /\ UNCHANGED <<topology, assignments, wrapped, called, result, args>>
    /\ UNCHANGED <<ovars, wvars, rvars, gvars>>

(* Schedule(num_tasks, num_hosts) *)
NewSchedule ==
    /\ epc = "objective"
    /\ assignments' = <<>>
    /\ epc' = "schedule"
    /\ UNCHANGED <<topology, tasks, wrapped, called, result, args>>
    /\ UNCHANGED <<ovars, wvars, rvars, gvars>>

(* Schedule.assign_task, for the tasks in the order of their ids *)
AssignTask ==
    /\ epc = "schedule"
    /\ \E task_id \in 0..(Len(tasks) - 1), c \in AssignChoices :
          /\ \A t \in DOMAIN assignments : t < task_id
          /\ assignments' =
                [t \in DOMAIN assignments \cup {task_id} |->
                    IF t = task_id THEN [nodes |-> c[1], frequency |-> c[2]]
                    ELSE assignments[t]]
    /\ UNCHANGED <<epc, topology, tasks, wrapped, called, result, args>>
    /\ UNCHANGED <<ovars, wvars, rvars, gvars>>

(* fitness_wrapper of run_demo and run_full: the optimizer was built with
   num_hosts = nodes + len(cloud); the wolf is decoded, the schedule filled and
   scored *)
FitnessWrapper ==
    /\ epc = "schedule"
    /\ EntryPointTopology(topology)
    /\ DOMAIN assignments = {}
    /\ LET nh == topology.num_fog + topology.num_cloud
       IN  \E position \in WrapperPositions(Len(tasks), nh) :
              /\ wrapped' = <<position>>
              /\ assignments' =
                    ScheduleOf(DecodePosition(position, Len(tasks), nh).schedule)
    /\ result' = Fitness(topology, tasks, assignments')
    /\ called' = "fitness_wrapper"
    /\ epc' = "evaluated"
    /\ UNCHANGED <<topology, tasks, args>>
    /\ UNCHANGED <<ovars, wvars, rvars, gvars>>

(* obj_fn.energy_consumption(schedule) *)
CallEnergyConsumption ==
    /\ epc = "schedule"
    /\ result' = EnergyConsumption(topology, tasks, assignments)
    /\ called' = "energy_consumption"
    /\ epc' = "evaluated"
    /\ UNCHANGED <<topology, tasks, assignments, wrapped, args>>
    /\ UNCHANGED <<ovars, wvars, rvars, gvars>>

(* obj_fn.system_reliability(schedule) *)
CallSystemReliability ==
    /\ epc = "schedule"
    /\ result' = SystemReliability(topology, tasks, assignments)
    /\ called' = "system_reliability"
    /\ epc' = "evaluated"
    /\ UNCHANGED <<topology, tasks, assignments, wrapped, args>>
    /\ UNCHANGED <<ovars, wvars, rvars, gvars>>

(* obj_fn.penalty_function(schedule) *)
CallPenaltyFunction ==
    /\ epc = "schedule"
    /\ result' = PenaltyFunction(topology, tasks, assignments)
    /\ called' = "penalty_function"
    /\ epc' = "evaluated"
    /\ UNCHANGED <<topology, tasks, assignments, wrapped, args>>
    /\ UNCHANGED <<ovars, wvars, rvars, gvars>>

(* obj_fn.fitness(schedule) *)
CallFitness ==
    /\ epc = "schedule"
    /\ result' = Fitness(topology, tasks, assignments)
    /\ called' = "fitness"
    /\ epc' = "evaluated"
    /\ UNCHANGED <<topology, tasks, assignments, wrapped, args>>
    /\ UNCHANGED <<ovars, wvars, rvars, gvars>>

(* Schedule.is_feasible(topology, tasks): 1 is True, 0 is False *)
IsFeasible(topo, tks, asg) ==
    LET penalty == PenaltyFunction(topo, tks, asg)
    IN  IF penalty.err # "none" THEN penalty
        ELSE Value(IF FLt(penalty.val, MaxPenalty) THEN 1 ELSE 0)

(* schedule.is_feasible(topology, tasks) *)
CallIsFeasible ==
    /\ epc = "schedule"
    /\ result' = IsFeasible(topology, tasks, assignments)
    /\ called' = "is_feasible"
    /\ epc' = "evaluated"
    /\ UNCHANGED <<topology, tasks, assignments, wrapped, args>>
    /\ UNCHANGED <<ovars, wvars, rvars, gvars>>

(* the ids a lookup is made with: fog nodes, the cloud, the source device *)
LookupIds == {0, 1, CloudId}

(* topology.get_latency_ms(source_id, dest_id) *)
CallGetLatencyMs ==
    /\ epc = "topology"
    /\ \E source_id \in LookupIds, dest_id \in LookupIds :
          /\ args' = <<source_id, dest_id>>
          /\ result' = Value(GetLatencyMs(topology, source_id, dest_id))
    /\ called' = "get_latency_ms"
    /\ epc' = "looked_up"
    /\ UNCHANGED <<topology, tasks, assignments, wrapped>>
    /\ UNCHANGED <<ovars, wvars, rvars, gvars>>

(* topology.get_bandwidth_mbps(source_id, dest_id) *)
CallGetBandwidthMbps ==
    /\ epc = "topology"
    /\ \E source_id \in LookupIds, dest_id \in LookupIds :
          /\ args' = <<source_id, dest_id>>
          /\ result' = Value(GetBandwidthMbps(topology, source_id, dest_id))
    /\ called' = "get_bandwidth_mbps"
    /\ epc' = "looked_up"
    /\ UNCHANGED <<topology, tasks, assignments, wrapped>>
    /\ UNCHANGED <<ovars, wvars, rvars, gvars>>

EvalNext ==
    \/ NewTopology
    \/ NewObjectiveFunction
    \/ NewSchedule
    \/ AssignTask
    \/ FitnessWrapper
    \/ CallEnergyConsumption
    \/ CallSystemReliability
    \/ CallPenaltyFunction
    \/ CallFitness
    \/ CallIsFeasible
    \/ CallGetLatencyMs
    \/ CallGetBandwidthMbps

EvalSpec == Init /\ [][EvalNext]_vars

-----------------------------------------------------------------------------
(* A single Wolf and its callers as a state machine *)

MaxEvals == 3
MaxDecodeHosts == 3

(* the values a fitness function returns for a single wolf *)
WolfFitVals == {0, 1, Inf}

(* one task's three coordinates, in and out of the ranges of the search space:
   halves, negatives, the upper ends *)
WolfTriples(nh) ==
    { <<0, Fx(1), 4>>,
      <<Fx(nh) - 5, 25, 20>>,
      <<Fx(nh), Fx(3), 25>>,
      <<5, 5, 0>>,
      <<15, 35, 12>>,
      <<0 - 15, 15, 2>> }

(* the positions a wolf is constructed with *)
WolfPositions(nt, nh) ==
    IF nt = 1 THEN WolfTriples(nh)
    ELSE { t \o u : t \in WolfTriples(nh), u \in {<<15, 35, 12>>, <<0, Fx(1), 4>>} }

(* the positions an update moves a wolf to *)
MovePositions(nt, nh) == DrawPositions(nt, nh)

(* Wolf(position, num_tasks, num_hosts) *)
NewWolf ==
    /\ wpc = "new"
    /\ \E nt \in TaskCounts, nh \in 1..MaxDecodeHosts :
          /\ wolf_num_tasks' = nt
          /\ wolf_num_hosts' = nh
          /\ \E position \in WolfPositions(nt, nh) : wolf' = Wolf(position)
    /\ observed' = <<>>
    /\ decoded' = <<>>
    /\ wcalled' = "__init__"
    /\ wpc' = "live"
    /\ UNCHANGED <<ovars, evars, rvars, gvars>>

(* optimize, lines 235-236: wolf.fitness = fitness_function(wolf);
   wolf.update_pbest(wolf.fitness) *)
EvaluateWolf ==
    /\ wpc = "live"
    /\ Len(observed) < MaxEvals
    /\ \E v \in WolfFitVals :
          /\ wolf' = UpdatePbest([wolf EXCEPT !.fitness = v], v)
          /\ observed' = Append(observed, <<wolf.position, v>>)
    /\ decoded' = <<>>
    /\ wcalled' = "update_pbest"
    /\ UNCHANGED <<wpc, wolf_num_tasks, wolf_num_hosts>>
    /\ UNCHANGED <<ovars, evars, rvars, gvars>>

(* optimize, lines 254-256: an evaluated wolf gets a new position *)
MoveWolf ==
    /\ wpc = "live"
    /\ Len(observed) >= 1
    /\ \E position \in MovePositions(wolf_num_tasks, wolf_num_hosts) :
          /\ position # wolf.position
          /\ wolf' = [wolf EXCEPT !.position = position]
    /\ decoded' = <<>>
    /\ wcalled' = "update_wolf"
    /\ UNCHANGED <<wpc, wolf_num_tasks, wolf_num_hosts, observed>>
    /\ UNCHANGED <<ovars, evars, rvars, gvars>>

(* wolf.decode_position() *)
DecodeWolf ==
    /\ wpc = "live"
    /\ decoded' = <<DecodePosition(wolf.position, wolf_num_tasks, wolf_num_hosts)>>
    /\ wolf' = AfterDecode(wolf)
    /\ wcalled' = "decode_position"
    /\ UNCHANGED <<wpc, wolf_num_tasks, wolf_num_hosts, observed>>
    /\ UNCHANGED <<ovars, evars, rvars, gvars>>

WolfNext ==
    \/ NewWolf
    \/ EvaluateWolf
    \/ MoveWolf
    \/ DecodeWolf

WolfSpec == Init /\ [][WolfNext]_vars

-----------------------------------------------------------------------------
(* One optimizer whose Evaluate and Update passes take the wolves in any
   order: the loop bodies of optimize, applied to the wolves of a pass one at a
   time, whichever comes next.  One task, two hosts, the linear scheme. *)

GenPop == 5
GenFitVals == {0, 1}

(* MDGWO(1, 2, GenPop, MaxIter).initialize_population(seed), then optimize
   enters its first generation *)
GenSetUp ==
    /\ gen_pc = "new"
    /\ \E seed \in Seeds(GenPop) :
          LET ws == DrawPopulation(Seeded(<<0, 0>>, seed), GenPop, 1, 2)
          IN  /\ gen_wolves' = [i \in 1..GenPop |-> Wolf(ws[i])]
              /\ gen_start' = gen_wolves'
              /\ gen_leaders' = UpdateLeaders(gen_wolves')
    /\ gen_iteration' = 0
    /\ gen_ftab' = <<>>
    /\ gen_pending' = 1..GenPop
    /\ gen_order' = <<>>
    /\ gen_pc' = "evaluate"
    /\ UNCHANGED <<ovars, evars, wvars, rvars>>

(* optimize, lines 235-236, for any wolf the pass has not reached *)
GenEvaluate ==
    /\ gen_pc = "evaluate"
    /\ \E i \in gen_pending :
          LET p == gen_wolves[i].position
          IN  \E v \in GenFitVals :
                 /\ p \in DOMAIN gen_ftab => v = gen_ftab[p]
                 /\ gen_ftab' = IF p \in DOMAIN gen_ftab THEN gen_ftab
                                ELSE gen_ftab @@ (p :> v)
                 /\ gen_wolves' = [gen_wolves EXCEPT ![i] =
                                      UpdatePbest([@ EXCEPT !.fitness = v], v)]
                 /\ gen_pending' = gen_pending \ {i}
    /\ gen_pc' = IF gen_pending' = {} THEN "rank" ELSE "evaluate"
    /\ UNCHANGED <<gen_leaders, gen_iteration, gen_start, gen_order>>
    /\ UNCHANGED <<ovars, evars, wvars, rvars>>

(* optimize, line 239: the ranking; the Update pass is about to begin *)
GenRank ==
    /\ gen_pc = "rank"
    /\ gen_leaders' = UpdateLeaders(gen_wolves)
    /\ gen_start' = gen_wolves
    /\ gen_pending' = { i \in DOMAIN gen_wolves :
                          ~IsLeader(i, gen_leaders'.alpha, gen_leaders'.beta,
                                    gen_leaders'.delta) }
    /\ gen_order' = <<>>
    /\ gen_pc' = IF gen_pending' = {} THEN "end" ELSE "update"
    /\ UNCHANGED <<gen_wolves, gen_iteration, gen_ftab>>
    /\ UNCHANGED <<ovars, evars, wvars, rvars>>

(* optimize, lines 254-256, for any non-leader the pass has not reached *)
GenUpdate ==
    /\ gen_pc = "update"
    /\ \E i \in gen_pending :
          /\ gen_wolves' = [gen_wolves EXCEPT ![i] =
                UpdateWolf(gen_wolves[i], gen_wolves, gen_leaders.alpha,
                           gen_leaders.beta, gen_leaders.delta, "linear", MaxIter,
                           2, gen_iteration)]
          /\ gen_pending' = gen_pending \ {i}
          /\ gen_order' = Append(gen_order, i)
    /\ gen_pc' = IF gen_pending' = {} THEN "end" ELSE "update"
    /\ UNCHANGED <<gen_leaders, gen_iteration, gen_ftab, gen_start>>
    /\ UNCHANGED <<ovars, evars, wvars, rvars>>

(* optimize, lines 258 and 232: the next generation begins *)
GenNext ==
    /\ gen_pc = "end"
    /\ LoopContinues(gen_iteration + 1, MaxIter)
    /\ gen_iteration' = gen_iteration + 1
    /\ gen_pending' = DOMAIN gen_wolves
    /\ gen_start' = gen_wolves
    /\ gen_order' = <<>>
    /\ gen_pc' = "evaluate"
    /\ UNCHANGED <<gen_wolves, gen_leaders, gen_ftab>>
    /\ UNCHANGED <<ovars, evars, wvars, rvars>>

GenStep ==
    \/ GenSetUp
    \/ GenEvaluate
    \/ GenRank
    \/ GenUpdate
    \/ GenNext

GenSpec == Init /\ [][GenStep]_vars

-----------------------------------------------------------------------------
(* Properties of the optimizer *)

Last(s) == s[Len(s)]

Returned == pc \in {"done", "fetched"}

(* C1: the best fitness recorded per generation never regresses: every entry of
   best_fitness_history is at most the entry before it *)
C1_NoRegression ==
    \A i \in 1..(Len(best_fitness_history) - 1) :
        best_fitness_history[i + 1] <= best_fitness_history[i]

(* a run of a population with a non-leader whose second generation improved on
   the first *)
C1_Witness ==
    /\ Returned
    /\ population_size >= 4
    /\ Len(best_fitness_history) >= 2
    /\ best_fitness_history[2] < best_fitness_history[1]

(* C2: when optimize has returned after at least one generation, the returned
   wolf is alpha, its stored fitness is the fitness function's value at its
   current position and the last entry of the convergence curve, and
   get_best_schedule() gives what decoding that position gives *)
C2_ReturnedIsAlpha ==
    /\ (Returned /\ max_iterations >= 1) =>
          /\ returned = alpha
          /\ wolves[returned].position \in DOMAIN ftab
          /\ wolves[returned].fitness = ftab[wolves[returned].position]
          /\ wolves[returned].fitness = Last(best_fitness_history)
    /\ (pc = "fetched" /\ max_iterations >= 1) =>
          /\ DecodePosition(wolves[returned].position, num_tasks, num_hosts).err = "none"
          /\ best_schedule =
                <<DecodePosition(wolves[returned].position, num_tasks, num_hosts).schedule>>
    /\ (pc = "raised" /\ returned # 0) =>
          error = DecodePosition(wolves[returned].position, num_tasks, num_hosts).err

(* the best schedule of a run in which a moved wolf became alpha was fetched *)
C2_Witness ==
    /\ pc = "fetched"
    /\ max_iterations >= 2
    /\ population_size >= 4
    /\ wolves[returned].position \notin DrawPositions(num_tasks, num_hosts)
    /\ best_fitness_history[2] < best_fitness_history[1]

(* C3: optimize on an initialized population never stops early and never
   raises; it returns after exactly max_iterations generations, every wolf
   evaluated once per generation, and the convergence curve holds one entry per
   generation, the fitness of the alpha that generation's ranking chose *)
C3_FixedBudget ==
    Len(wolves) >= 1 =>
        /\ pc = "loop" => iteration <= max_iterations
        /\ pc \in {"evaluate", "rank", "update", "enditer"} => iteration < max_iterations
        /\ pc = "raised" => returned # 0
        /\ pc = "evaluate" =>
              /\ Len(best_fitness_history) = iteration
              /\ \A i \in 1..Len(wolves) :
                    evals[i] = IF i < k THEN iteration + 1 ELSE iteration
        /\ pc = "rank" =>
              /\ Len(best_fitness_history) = iteration
              /\ \A i \in 1..Len(wolves) : evals[i] = iteration + 1
        /\ pc \in {"update", "enditer"} =>
              /\ Len(best_fitness_history) = iteration + 1
              /\ alpha = UpdateLeaders(wolves).alpha
              /\ Last(best_fitness_history) = wolves[alpha].fitness
              /\ \A i \in 1..Len(wolves) : evals[i] = iteration + 1
        /\ Returned =>
              /\ iteration = max_iterations
              /\ Len(best_fitness_history) = max_iterations
              /\ \A i \in 1..Len(wolves) : evals[i] = max_iterations

(* a run of several generations returned *)
C3_Witness ==
    /\ pc = "done"
    /\ max_iterations >= 2
    /\ population_size >= 4
    /\ Len(best_fitness_history) = max_iterations
    /\ best_fitness_history[1] # best_fitness_history[2]

(* the states in which the leaders are those of the last ranking step and no
   wolf has been evaluated since *)
Ranked ==
    pc \in {"initialized", "loop", "update", "enditer", "done", "fetched"}

(* C4: after a ranking step on at least 3 wolves, alpha, beta and delta are
   three distinct wolves in ascending order of fitness, no other wolf is fitter
   than delta, and of two wolves of equal fitness the earlier one in the
   population ranks first *)
C4_LeadersRanked ==
    (Ranked /\ Len(wolves) >= 3) =>
        /\ alpha # beta /\ beta # delta /\ alpha # delta
        /\ wolves[alpha].fitness <= wolves[beta].fitness
        /\ wolves[beta].fitness <= wolves[delta].fitness
        /\ wolves[alpha].fitness = wolves[beta].fitness => alpha < beta
        /\ wolves[beta].fitness = wolves[delta].fitness => beta < delta
        /\ \A i \in 1..Len(wolves) :
              ~IsLeader(i, alpha, beta, delta) =>
                  /\ wolves[delta].fitness <= wolves[i].fitness
                  /\ wolves[delta].fitness = wolves[i].fitness => delta < i

(* a ranking with a tie among the leaders, a tie between delta and a
   non-leader, and the leaders out of population order *)
C4_Witness ==
    /\ pc = "update"
    /\ Len(wolves) >= 4
    /\ wolves[alpha].fitness < wolves[beta].fitness
    /\ wolves[beta].fitness = wolves[delta].fitness
    /\ \E i \in 1..Len(wolves) :
          /\ ~IsLeader(i, alpha, beta, delta)
          /\ wolves[i].fitness = wolves[delta].fitness
    /\ alpha > beta

(* C11: with an initialized population of 1 or 2 wolves nothing raises before
   optimize has returned, and after every ranking step the leaders are: for one
   wolf, that wolf three times; for two wolves, alpha the better one (the
   earlier one on a tie), beta the other one, delta the same wolf as alpha *)
C11_SmallPopulationLeaders ==
    (Len(wolves) \in {1, 2}) =>
        /\ pc = "raised" => returned # 0
        /\ (Ranked /\ Len(wolves) = 1) => (alpha = 1 /\ beta = 1 /\ delta = 1)
        /\ (Ranked /\ Len(wolves) = 2) =>
              /\ alpha \in {1, 2}
              /\ beta = 3 - alpha
              /\ delta = alpha
              /\ Before(wolves, alpha, beta)

(* a run of two wolves returned with the second wolf as alpha *)
C11_Witness ==
    /\ pc = "done"
    /\ Len(wolves) = 2
    /\ max_iterations >= 1
    /\ alpha = 2
    /\ beta = 1
    /\ delta = 2
    /\ wolves[2].fitness < wolves[1].fitness

(* C10: no optimizer is constructed with a non-positive iteration budget,
   population size or host count *)
C10_HyperparametersValid ==
    pc # "new" => max_iterations > 0 /\ population_size > 0 /\ num_hosts > 0

-----------------------------------------------------------------------------
(* Properties of the fitness evaluator *)

Evaluated == epc = "evaluated"

(* the host ids a schedule lists *)
Replicas(asg) ==
    UNION { {asg[t].nodes[r] : r \in 1..Len(asg[t].nodes)} : t \in DOMAIN asg }

(* the registered hosts a schedule lists *)
ListedHosts == { GetHost(topology, n) :
                    n \in {m \in Replicas(assignments) : HostFound(topology, m)} }

SoundHosts == \A h \in ListedHosts : h.cpu_mips > 0 /\ h.memory_mb > 0

PositiveBandwidth ==
    \A pr \in DOMAIN topology.network_bandwidth_mbps :
        topology.network_bandwidth_mbps[pr] > 0

(* the schedule without the replicas on unregistered hosts *)
DropMissing(topo, asg) ==
    [t \in DOMAIN asg |->
        [nodes |-> SelectSeq(asg[t].nodes, LAMBDA n : HostFound(topo, n)),
         frequency |-> asg[t].frequency]]

(* C5: an evaluation of a schedule that lists a host id the topology does not
   register (anywhere in a replica list, the first place included), its
   registered replicas being fog nodes with positive capacities, returns a
   value, and the unregistered replica adds no energy and no success
   probability *)
C5_LookupMissIsZero ==
    (/\ Evaluated
     /\ \E n \in Replicas(assignments) : ~HostFound(topology, n)
     /\ \A n \in Replicas(assignments) :
            HostFound(topology, n) => IsFogNode(topology, n)
     /\ SoundHosts)
    => /\ result.err = "none"
       /\ called = "energy_consumption" =>
             result = EnergyConsumption(topology, tasks,
                                        DropMissing(topology, assignments))
       /\ called = "system_reliability" =>
             result = SystemReliability(topology, tasks,
                                        DropMissing(topology, assignments))

(* C6: in a run of the entry points every host id of the schedule decoded by
   fitness_wrapper is the id of a host the topology registers *)
C6_DecodedHostsRegistered ==
    (Evaluated /\ called = "fitness_wrapper")
    => \A n \in Replicas(assignments) : HostFound(topology, n)

(* the tasks that the deadline term has to charge: the unassigned ones, and the
   assigned ones whose time on the first replica exceeds the deadline *)
MissesDeadline(topo, task, asg) ==
    \/ task.task_id \notin DOMAIN asg
    \/ /\ Len(asg[task.task_id].nodes) > 0
       /\ HostFound(topo, asg[task.task_id].nodes[1])
       /\ FGt(TaskTotalTime(task, task.source_device_id,
                            GetHost(topo, asg[task.task_id].nodes[1]),
                            asg[task.task_id].frequency, topo),
              task.deadline_s)

(* C7: when penalty_function returns, its value is the CPU, memory and
   reliability terms plus one deadline coefficient for each task that is
   unassigned or late on its first replica, host 0 included *)
C7_DeadlineTermPerTask ==
    (Evaluated /\ called = "penalty_function" /\ result.err = "none")
    => result.val =
          FAdd(FAdd(CpuPenalty(topology, tasks, assignments).val,
                    MemoryPenalty(topology, tasks, assignments).val),
               FAdd(1000 * PenaltyDeadline
                       * Cardinality({i \in 1..Len(tasks) :
                            MissesDeadline(topology, tasks[i], assignments)}),
                    ReliabilityPenalty(topology, tasks, assignments).val))

(* C8: for a schedule whose replicas are all registered hosts, fog or cloud, of
   positive capacity, over links of positive bandwidth, energy_consumption and
   fitness return a finite value, and the energy is positive when a task has a
   replica *)
C8_TotalOverHostVariants ==
    (/\ Evaluated
     /\ called \in {"energy_consumption", "fitness"}
     /\ \A n \in Replicas(assignments) : HostFound(topology, n)
     /\ SoundHosts
     /\ PositiveBandwidth)
    => /\ result.err = "none"
       /\ IsFinite(result.val)
       /\ (called = "energy_consumption" /\ Replicas(assignments) # {})
             => result.val > 0

(* C9: for a schedule whose replicas are all fog nodes, whatever their
   capacities and the bandwidth of the links, every evaluation returns a
   value, and the energy is infinite when a host of zero processing rate
   carries load *)
C9_InfeasibleDataNeverRaises ==
    (/\ Evaluated
     /\ \A n \in Replicas(assignments) : IsFogNode(topology, n))
    => /\ result.err = "none"
       /\ (called = "energy_consumption"
             /\ \E h \in ListedHosts : h.cpu_mips = 0) => result.val = Inf

-----------------------------------------------------------------------------
(* Properties of a single Wolf *)

(* the least fitness among the first n evaluations; +inf for none *)
RECURSIVE MinObserved(_, _)
MinObserved(obs, n) ==
    IF n = 0 THEN Inf ELSE Min(obs[n][2], MinObserved(obs, n - 1))

(* the earliest evaluation that attained the least fitness *)
EarliestMin(obs) ==
    CHOOSE i \in 1..Len(obs) :
        /\ obs[i][2] = MinObserved(obs, Len(obs))
        /\ \A j \in 1..(i - 1) : obs[j][2] # obs[i][2]

(* C12: whatever evaluations and moves a wolf has gone through, pbest_fitness
   is the least fitness it has observed and pbest is the position it had at
   the earliest evaluation that attained it *)
C12_PbestEarliestMinimum ==
    wpc = "live" =>
        /\ wolf.pbest_fitness = MinObserved(observed, Len(observed))
        /\ observed # <<>> => wolf.pbest = observed[EarliestMin(observed)][1]

(* a wolf that attained its least fitness twice, at different positions, and
   has moved on since *)
C12_Witness ==
    /\ wpc = "live"
    /\ wcalled = "update_wolf"
    /\ Len(observed) = 3
    /\ observed[1][2] > observed[2][2]
    /\ observed[2][2] = observed[3][2]
    /\ observed[2][1] # observed[3][1]
    /\ wolf.pbest = observed[2][1]
    /\ wolf.position # wolf.pbest

(* C13: a call of decode_position leaves the wolf's position, fitness, pbest
   and pbest_fitness as they were, and a second call right after the first
   returns the same schedule *)
C13_DecodeIdempotent ==
    [][wcalled' = "decode_position" =>
          /\ wolf' = wolf
          /\ wcalled = "decode_position" => decoded' = decoded]_vars

(* an evaluated wolf with a frequency coordinate outside the range was
   decoded *)
C13_Witness ==
    /\ wcalled = "decode_position"
    /\ decoded # <<>>
    /\ decoded[1].err = "none"
    /\ wolf.fitness # Inf
    /\ \E i \in 1..Len(wolf.position) : (i - 1) % 3 = 2 /\ wolf.position[i] > 20

(* C14: for a position x of 3 * num_tasks coordinates and num_hosts >= 1 the
   entry of task j has the primary host round(x[3j]) mod num_hosts, a replica
   list of length clamp(round(x[3j+1]), 1, 3) whose k-th extra replica is
   (primary + k) mod num_hosts, host ids within 0..num_hosts-1 and the
   frequency x[3j+2] clamped to [0.4, 2.0] *)
C14_DecodeFormula ==
    wcalled = "decode_position" =>
        /\ decoded[1].err = "none"
        /\ Len(decoded[1].schedule) = wolf_num_tasks
        /\ \A j \in 0..(wolf_num_tasks - 1) :
              LET entry == decoded[1].schedule[j + 1]
                  x == wolf.position
              IN  /\ Len(entry.nodes) = Clip(NpRound(x[3 * j + 2]), 1, 3)
                  /\ entry.nodes[1] = NpRound(x[3 * j + 1]) % wolf_num_hosts
                  /\ \A r \in 1..(Len(entry.nodes) - 1) :
                        entry.nodes[r + 1] = (entry.nodes[1] + r) % wolf_num_hosts
                  /\ \A r \in 1..Len(entry.nodes) :
                        entry.nodes[r] \in 0..(wolf_num_hosts - 1)
                  /\ entry.frequency = Clip(x[3 * j + 3], 4, 20)

(* a decoding of two tasks in which a negative host coordinate, a replica list
   that wraps around the host range and a clamped frequency occur *)
C14_Witness ==
    /\ wcalled = "decode_position"
    /\ wolf_num_tasks = 2
    /\ wolf_num_hosts = 2
    /\ wolf.position[1] < 0
    /\ decoded[1].schedule[1].nodes[1] = 0
    /\ Len(decoded[1].schedule[2].nodes) = 3
    /\ decoded[1].schedule[2].nodes = <<0, 1, 0>>
    /\ wolf.position[3] < 4
    /\ decoded[1].schedule[1].frequency = 4

-----------------------------------------------------------------------------
(* Properties of the fitness evaluator: the terms *)

(* every task has a replica list that is not empty *)
AllAssigned ==
    \A i \in 1..Len(tasks) :
        /\ tasks[i].task_id \in DOMAIN assignments
        /\ Len(assignments[tasks[i].task_id].nodes) > 0

(* C15: when fitness returns, its value is beta_energy * energy_consumption
   - beta_reliability * 1000 * system_reliability + penalty_function; and it
   returns a finite value whenever every task is assigned to registered hosts
   of positive processing rate and memory over links of positive bandwidth *)
C15_FitnessIsWeightedSum ==
    (Evaluated /\ called = "fitness") =>
        /\ result.err = "none" =>
              LET energy == EnergyConsumption(topology, tasks, assignments).val
                  reliability == SystemReliability(topology, tasks, assignments).val
                  penalty == PenaltyFunction(topology, tasks, assignments).val
              IN  (IsFinite(energy) /\ IsFinite(reliability) /\ IsFinite(penalty)) =>
                      result.val = RDiv(BetaEnergy * energy, 10)
                                     - BetaReliability * 100 * reliability + penalty
        /\ (/\ AllAssigned
            /\ \A n \in Replicas(assignments) : HostFound(topology, n)
            /\ SoundHosts
            /\ PositiveBandwidth)
           => (result.err = "none" /\ IsFinite(result.val))

(* C16: over a non-empty task set system_reliability returns a value in
   [0, 1]: 0 when no task is assigned, and the same value as without the
   replicas on unregistered hosts *)
C16_ReliabilityInUnitInterval ==
    (Evaluated /\ called = "system_reliability" /\ Len(tasks) > 0) =>
        /\ result.err = "none"
        /\ result.val >= 0
        /\ result.val <= 1000
        /\ DOMAIN assignments = {} => result.val = 0
        /\ result = SystemReliability(topology, tasks,
                                      DropMissing(topology, assignments))

(* the places where a host is listed: <<task index, replica index>> *)
Listings(node_id) ==
    { pr \in (1..Len(tasks)) \X (1..3) :
        /\ tasks[pr[1]].task_id \in DOMAIN assignments
        /\ pr[2] <= Len(assignments[tasks[pr[1]].task_id].nodes)
        /\ assignments[tasks[pr[1]].task_id].nodes[pr[2]] = node_id }

(* the load of a host: the demand of a task once for every place it lists it *)
ClaimedLoad(node_id, demand) ==
    SetSum(Listings(node_id),
           [pr \in Listings(node_id) |-> tasks[pr[1]][demand]])

(* coeff * sum over the registered hosts carrying load of
   max(0, load / capacity - 1), capacities positive *)
ClaimedCapacityTerm(coeff, demand, capacity) ==
    LET loaded == {n \in Replicas(assignments) : HostFound(topology, n)}
    IN  SetSum(loaded,
               [n \in loaded |->
                   coeff * Max(0, RDiv(1000 * (ClaimedLoad(n, demand)
                                                 - GetHost(topology, n)[capacity]),
                                       GetHost(topology, n)[capacity]))])

(* every task is assigned to the one host h and to no other *)
AllOn(h) ==
    /\ Len(tasks) >= 1
    /\ \A i \in 1..Len(tasks) :
          /\ tasks[i].task_id \in DOMAIN assignments
          /\ assignments[tasks[i].task_id].nodes = <<h>>

(* C17: when penalty_function returns, its CPU and memory terms are the
   coefficient times the sum over the loaded hosts of max(0, load / capacity
   - 1), every listing of a host counting the task's full demand; with all
   tasks on one host and their workload above its capacity the penalty is
   positive *)
C17_CapacityTerms ==
    (Evaluated /\ called = "penalty_function" /\ result.err = "none") =>
        /\ result.val =
              FAdd(FAdd(ClaimedCapacityTerm(PenaltyCpu, "workload_mi", "cpu_mips"),
                        ClaimedCapacityTerm(PenaltyMemory, "memory_requirement_mb",
                                            "memory_mb")),
                   FAdd(DeadlinePenalty(topology, tasks, assignments).val,
                        ReliabilityPenalty(topology, tasks, assignments).val))
        /\ \A h \in DOMAIN topology.fog_nodes :
              (AllOn(h) /\ ClaimedLoad(h, "workload_mi") > topology.fog_nodes[h].cpu_mips)
              => /\ result.val > 0
                 /\ CpuPenalty(topology, tasks, assignments).val =
                       PenaltyCpu * RDiv(1000 * (ClaimedLoad(h, "workload_mi")
                                                   - topology.fog_nodes[h].cpu_mips),
                                         topology.fog_nodes[h].cpu_mips)

(* two tasks list host 1 twice each and overload its CPU but not its memory *)
C17_Witness ==
    /\ Evaluated
    /\ called = "penalty_function"
    /\ result.err = "none"
    /\ Len(tasks) = 2
    /\ \A i \in 1..2 : /\ tasks[i].task_id \in DOMAIN assignments
                       /\ assignments[tasks[i].task_id].nodes = <<1, 1>>
    /\ HostFound(topology, 1)
    /\ ClaimedLoad(1, "workload_mi") = 4000
    /\ CpuPenalty(topology, tasks, assignments).val = PenaltyCpu * 1000
    /\ MemoryPenalty(topology, tasks, assignments).val = 0

(* the reliability term of one task as claimed: the replicas on unregistered
   hosts succeed with probability 0 *)
ClaimedReliabilityTerm(task) ==
    IF task.criticality = 0 THEN 0
    ELSE IF task.task_id \notin DOMAIN assignments THEN 1000 * PenaltyReliability
    ELSE PenaltyReliability
            * Max(0, MinReliability
                       - TaskSuccessWithReplication(
                             SuccessProbs(topology, task,
                                          assignments[task.task_id].nodes,
                                          assignments[task.task_id].frequency)))

(* C18: when penalty_function returns, its reliability term is the sum over
   the critical tasks of coefficient * max(0, 0.99 - replicated success) for an
   assigned task and of one flat coefficient for an unassigned one, which also
   gets the flat deadline penalty; non-critical tasks add nothing to it *)
C18_ReliabilityTerm ==
    (Evaluated /\ called = "penalty_function" /\ result.err = "none") =>
        /\ result.val =
              FAdd(FAdd(CpuPenalty(topology, tasks, assignments).val,
                        MemoryPenalty(topology, tasks, assignments).val),
                   FAdd(DeadlinePenalty(topology, tasks, assignments).val,
                        SetSum(1..Len(tasks),
                               [i \in 1..Len(tasks) |-> ClaimedReliabilityTerm(tasks[i])])))
        /\ \A i \in 1..Len(tasks) :
              (tasks[i].criticality = 1 /\ tasks[i].task_id \notin DOMAIN assignments)
              => result.val >= 1000 * PenaltyReliability + 1000 * PenaltyDeadline

(* a critical task on an unreliable host falls short of the minimum, next to a
   non-critical task on the same host *)
C18_Witness ==
    /\ Evaluated
    /\ called = "penalty_function"
    /\ result.err = "none"
    /\ Len(tasks) = 2
    /\ tasks[1].criticality = 0
    /\ tasks[2].criticality = 1
    /\ DOMAIN assignments = {0, 1}
    /\ assignments[0].nodes = assignments[1].nodes
    /\ ClaimedReliabilityTerm(tasks[2]) > 0
    /\ ClaimedReliabilityTerm(tasks[2]) < PenaltyReliability * MinReliability
    /\ TaskSuccess(topology, tasks[1], assignments) < MinReliability

(* the violations of a schedule: an overloaded CPU or memory, an unassigned
   task, a task late on its first replica, a critical task short of the minimum
   reliability *)
Violation ==
    \/ ClaimedCapacityTerm(PenaltyCpu, "workload_mi", "cpu_mips") > 0
    \/ ClaimedCapacityTerm(PenaltyMemory, "memory_requirement_mb", "memory_mb") > 0
    \/ \E i \in 1..Len(tasks) : MissesDeadline(topology, tasks[i], assignments)
    \/ \E i \in 1..Len(tasks) : ClaimedReliabilityTerm(tasks[i]) > 0

(* C19: when is_feasible returns, it returns False for a schedule with a
   violation and True for a schedule with none *)
C19_FeasibleIffNoViolation ==
    (Evaluated /\ called = "is_feasible" /\ result.err = "none") =>
        (result.val = 1 <=> ~Violation)

(* what a lookup in table d has to return *)
ClaimedLookup(d, a, b, default) ==
    IF <<a, b>> \in DOMAIN d THEN d[<<a, b>>]
    ELSE IF <<b, a>> \in DOMAIN d THEN d[<<b, a>>]
    ELSE default

(* C20: get_latency_ms(a, b) and get_bandwidth_mbps(a, b) return the value
   stored for (a, b), else the one stored for (b, a), else 50 ms and 100 Mbps;
   with one direction stored, (a, b) and (b, a) resolve to the same value *)
C20_LookupResolves ==
    epc = "looked_up" =>
        LET a == args[1]
            b == args[2]
            latency == called = "get_latency_ms"
            d == IF latency THEN topology.network_latency_ms
                 ELSE topology.network_bandwidth_mbps
            reverse == IF latency THEN GetLatencyMs(topology, b, a)
                       ELSE GetBandwidthMbps(topology, b, a)
        IN  /\ result.err = "none"
            /\ result.val = ClaimedLookup(d, a, b, IF latency THEN 50 ELSE 100)
            /\ (<<a, b>> \in DOMAIN d) # (<<b, a>> \in DOMAIN d) => result.val = reverse

(* the latency of a pair stored in the other direction only was looked up *)
C20_Witness ==
    /\ epc = "looked_up"
    /\ called = "get_latency_ms"
    /\ args = <<1, 0>>
    /\ <<1, 0>> \notin DOMAIN topology.network_latency_ms
    /\ <<0, 1>> \in DOMAIN topology.network_latency_ms
    /\ result.val = topology.network_latency_ms[<<0, 1>>]
    /\ result.val # DefaultLatencyMs

(* C27: the replica list decode_position builds for a task lists no host id
   twice: a task of replication factor r is placed on r distinct hosts *)
C27_ReplicasDistinct ==
    (wcalled = "decode_position" /\ decoded[1].err = "none") =>
        \A j \in 1..Len(decoded[1].schedule) :
            LET nodes == decoded[1].schedule[j].nodes
            IN  \A r1 \in 1..Len(nodes), r2 \in 1..Len(nodes) :
                    r1 # r2 => nodes[r1] # nodes[r2]

-----------------------------------------------------------------------------
(* Properties of the generations of optimize *)

(* C22: for every iteration index of a run (0 <= t < max_iterations, the budget
   at least 1) the memory coefficient lies in [0, 1] and strictly decreases in
   t; it is 1 at t = 0, the linear scheme reaches 0 at t = max_iterations, and
   an unrecognised scheme name gives the linear scheme's values *)
C22_MemoryCoefficient ==
    (pc = "update" /\ max_iterations >= 1) =>
        LET eta(t) == MemoryCoefficient(memory_decay, max_iterations, t)
        IN  /\ iteration \in 0..(max_iterations - 1)
            /\ \A t \in 0..(max_iterations - 1) :
                  /\ eta(t) >= 0
                  /\ eta(t) <= 1000
                  /\ t >= 1 => eta(t) < eta(t - 1)
            /\ eta(0) = 1000
            /\ memory_decay # "exponential" =>
                  /\ eta(max_iterations) = 0
                  /\ \A t \in 0..max_iterations :
                        eta(t) = 1000 - RDiv(1000 * t, max_iterations)

(* a non-leader wolf is about to be moved in a later generation under the
   exponential scheme, the coefficient strictly between 0 and 1 *)
C22_Witness ==
    /\ pc = "update"
    /\ memory_decay = "exponential"
    /\ iteration >= 1
    /\ ~IsLeader(k, alpha, beta, delta)
    /\ MemoryCoefficient(memory_decay, max_iterations, iteration) \in 1..999

Positions(ws) == [i \in DOMAIN ws |-> ws[i].position]

(* C23: a generation is three phases with full barriers: when the ranking runs
   every wolf has been evaluated in this generation (fitness stored, pbest no
   worse), no position changes during the Evaluate pass or the ranking, and a
   position changes only in the Update pass, after the ranking of that
   generation is complete *)
C23_ThreePhases ==
    [][ /\ pc = "rank" =>
              \A i \in DOMAIN wolves :
                  /\ evals[i] = iteration + 1
                  /\ wolves[i].fitness = ftab[wolves[i].position]
                  /\ wolves[i].pbest_fitness <= wolves[i].fitness
        /\ pc \in {"evaluate", "rank"} => Positions(wolves') = Positions(wolves)
        /\ (pc \in {"loop", "evaluate", "rank", "update", "enditer"}
              /\ Positions(wolves') # Positions(wolves)) =>
              /\ pc = "update"
              /\ Len(best_fitness_history) = iteration + 1
              /\ <<alpha, beta, delta>> = <<UpdateLeaders(wolves).alpha,
                                            UpdateLeaders(wolves).beta,
                                            UpdateLeaders(wolves).delta>>
              /\ \A i \in DOMAIN wolves : evals[i] = iteration + 1
      ]_vars

(* the second generation has evaluated every wolf twice, ranked, and moved a wolf *)
C23_Witness ==
    /\ pc = "enditer"
    /\ iteration = 1
    /\ \A i \in DOMAIN wolves : evals[i] = 2
    /\ \E i \in DOMAIN wolves :
          moved[i] = 1 /\ wolves[i].position # wolves[i].pbest

(* C24: the Update pass leaves the positions of alpha, beta and delta unchanged
   and moves every other wolf exactly once; it never changes a pbest, a
   pbest_fitness or a fitness; so the alpha of a generation still has its
   position when the next generation evaluates it *)
C24_UpdateFrame ==
    [][ /\ pc = "update" =>
              /\ \A i \in DOMAIN wolves :
                    /\ wolves'[i].pbest = wolves[i].pbest
                    /\ wolves'[i].pbest_fitness = wolves[i].pbest_fitness
                    /\ wolves'[i].fitness = wolves[i].fitness
                    /\ i \in {alpha, beta, delta} =>
                          wolves'[i].position = wolves[i].position
              /\ pc' = "enditer" =>
                    \A i \in DOMAIN wolves :
                        moved'[i] = IF i \in {alpha, beta, delta} THEN 0 ELSE 1
        /\ (pc \in {"update", "enditer", "loop", "evaluate"} /\ alpha \in DOMAIN wolves) =>
              wolves'[alpha].position = wolves[alpha].position
      ]_vars

(* the alpha of the first generation is up for evaluation in the second, after
   an Update pass that moved a wolf *)
C24_Witness ==
    /\ pc = "evaluate"
    /\ iteration = 1
    /\ k = alpha
    /\ \E i \in DOMAIN wolves : moved[i] = 1 /\ wolves[i].position # wolves[i].pbest

(* C25: update_wolf sets each coordinate of a non-leader wolf to the mean of
   the alpha, beta and delta coordinates plus eta(t) times (pbest minus current
   coordinate), clamped into [0, num_hosts-1] (host), [1, 3] (replication) or
   [0.4, 2.0] (frequency); and the clamp never changes the host id that an
   in-range host coordinate (one in [0, num_hosts)) decodes to *)
C25_UpdateFormula ==
    [][ (pc = "update" /\ ~IsLeader(k, alpha, beta, delta)) =>
            \A i \in 1..Len(wolves[k].position) :
                LET eta == MemoryCoefficient(memory_decay, max_iterations, iteration)
                    mean3 == 1000 * (wolves[alpha].position[i] + wolves[beta].position[i]
                                       + wolves[delta].position[i])
                    raw == RDiv(mean3 + 3 * eta * (wolves[k].pbest[i]
                                                     - wolves[k].position[i]), 3000)
                    new == wolves'[k].position[i]
                IN  /\ (i - 1) % 3 = 0 => new = Min(Max(raw, 0), Fx(num_hosts - 1))
                    /\ (i - 1) % 3 = 1 => new = Min(Max(raw, Fx(1)), Fx(3))
                    /\ (i - 1) % 3 = 2 => new = Min(Max(raw, 4), 20)
                    /\ ((i - 1) % 3 = 0 /\ num_hosts >= 1 /\ raw >= 0
                          /\ raw < Fx(num_hosts)) =>
                          NpRound(new) % num_hosts = NpRound(raw) % num_hosts
      ]_vars

InRange(x, i, nh) ==
    IF (i - 1) % 3 = 0 THEN x >= 0 /\ x < Fx(nh)
    ELSE IF (i - 1) % 3 = 1 THEN x >= Fx(1) /\ x <= Fx(3)
    ELSE x >= 4 /\ x <= 20

(* C26: in every state after initialize_population, each coordinate of each
   wolf's position and pbest lies in its valid range (host coordinates in
   [0, num_hosts), replication coordinates in [1, 3], frequency coordinates in
   [0.4, 2.0]) and each position vector has length 3 * num_tasks *)
C26_PositionsInRange ==
    (pc \in {"initialized", "loop", "evaluate", "rank", "update", "enditer",
             "done", "fetched"}) =>
        \A w \in DOMAIN wolves :
            /\ Len(wolves[w].position) = 3 * num_tasks
            /\ Len(wolves[w].pbest) = 3 * num_tasks
            /\ \A i \in 1..(3 * num_tasks) :
                  /\ InRange(wolves[w].position[i], i, num_hosts)
                  /\ InRange(wolves[w].pbest[i], i, num_hosts)

-----------------------------------------------------------------------------
(* Properties relating the terms of the evaluator *)

(* C29: for every schedule and every assigned critical task, the replicated
   success value penalty_function compares against the minimum reliability
   equals the task's contribution to system_reliability, also when replicas
   are on unregistered host ids and when a host id is repeated in the list *)
C29_ReliabilityConsistent ==
    (Evaluated /\ called = "penalty_function" /\ result.err = "none") =>
        \A i \in 1..Len(tasks) :
            (tasks[i].criticality = 1 /\ tasks[i].task_id \in DOMAIN assignments) =>
                /\ FoundSuccess(topology, tasks[i], assignments[tasks[i].task_id].nodes,
                                assignments[tasks[i].task_id].frequency)
                      = TaskSuccess(topology, tasks[i], assignments)
                /\ ReliabilityOfTask(topology, tasks[i], assignments)
                      = IF TaskSuccess(topology, tasks[i], assignments) < MinReliability
                        THEN PenaltyReliability
                               * (MinReliability
                                    - TaskSuccess(topology, tasks[i], assignments))
                        ELSE 0

(* penalty_function has returned for two critical tasks: one lists an unreliable
   host twice, the other lists a host that is not registered *)
C29_Witness ==
    /\ Evaluated
    /\ called = "penalty_function"
    /\ result.err = "none"
    /\ Len(tasks) = 2
    /\ tasks[1].criticality = 1
    /\ tasks[2].criticality = 1
    /\ DOMAIN assignments = {0, 1}
    /\ assignments[0].nodes = <<1, 1>>
    /\ SuccessProbs(topology, tasks[1], <<1>>, assignments[0].frequency)[1] \in 1..999
    /\ MissingId \in {assignments[1].nodes[r] : r \in 1..Len(assignments[1].nodes)}
    /\ ~HostFound(topology, MissingId)

(* the clock frequencies a schedule is compared at: 0.4, 1.2 and 2.0 GHz *)
Frequencies == {4, 12, 20}

(* the schedules with the replica lists of asg and any frequencies *)
Refrequenced(asg) ==
    { [t \in DOMAIN asg |-> [nodes |-> asg[t].nodes, frequency |-> F[t]]] :
        F \in [DOMAIN asg -> Frequencies] }

NoLower(asg, asg2) == \A t \in DOMAIN asg : asg2[t].frequency >= asg[t].frequency

NotBelow(r, r2) ==
    /\ r2.err = r.err
    /\ r.err = "none" => (r.val # NaN /\ r2.val # NaN /\ r.val <= r2.val)

(* C30: two schedules with the same replica lists that differ in the
   frequencies only get equal values of system_reliability and of
   penalty_function, and, the power coefficients non-negative, energy_consumption
   and fitness do not decrease when task frequencies are raised *)
C30_FrequencyOnlyEnergy ==
    Evaluated =>
        \A asg2 \in Refrequenced(assignments) :
            /\ called = "system_reliability" =>
                  SystemReliability(topology, tasks, asg2) = result
            /\ called = "penalty_function" =>
                  PenaltyFunction(topology, tasks, asg2) = result
            /\ (called = "energy_consumption" /\ NoLower(assignments, asg2)) =>
                  NotBelow(result, EnergyConsumption(topology, tasks, asg2))
            /\ (called = "fitness" /\ NoLower(assignments, asg2)) =>
                  NotBelow(result, Fitness(topology, tasks, asg2))

(* the energy of a schedule at 0.4 GHz has been computed, and the same replica
   lists at 2.0 GHz cost strictly more *)
C30_Witness ==
    /\ Evaluated
    /\ called = "energy_consumption"
    /\ result.err = "none"
    /\ result.val < Inf
    /\ \E t \in DOMAIN assignments : assignments[t].frequency = 4
    /\ \E asg2 \in Refrequenced(assignments) :
          /\ NoLower(assignments, asg2)
          /\ EnergyConsumption(topology, tasks, asg2).val > result.val
          /\ EnergyConsumption(topology, tasks, asg2).val < Inf

-----------------------------------------------------------------------------
(* Properties of repeated runs and of the order within a pass *)

IsPrefix(s, t) == Len(s) <= Len(t) /\ \A i \in 1..Len(s) : s[i] = t[i]

(* C21: a run is determined by its seed and inputs: when a run is repeated with
   the same seed, sizes, budget, decay scheme and fitness function, the second
   run draws the same initial population, ranks the same leaders in every
   generation, records the same convergence curve and returns the same position *)
C21_Deterministic ==
    first_run # <<>> =>
        /\ run_log.population = first_run[1].population
        /\ IsPrefix(run_log.leaders, first_run[1].leaders)
        /\ pc \in {"loop", "evaluate", "rank", "update", "enditer"} =>
              IsPrefix(best_fitness_history, first_run[1].curve)
        /\ pc \in {"done", "fetched"} =>
              /\ run_log.leaders = first_run[1].leaders
              /\ best_fitness_history = first_run[1].curve
              /\ wolves[returned].position = first_run[1].position

(* the second of two runs has finished: two generations, a population of
   different positions, a curve that improved, a wolf that was moved *)
C21_Witness ==
    /\ first_run # <<>>
    /\ pc = "done"
    /\ Len(first_run[1].curve) = 2
    /\ first_run[1].curve[2] < first_run[1].curve[1]
    /\ \E i, j \in DOMAIN first_run[1].population :
          first_run[1].population[i] # first_run[1].population[j]
    /\ \E i \in DOMAIN wolves : moved[i] = 1 /\ wolves[i].position # wolves[i].pbest

(* C28: the wolves of a pass are independent: whatever order the Update pass
   takes the non-leaders in, each moved wolf is what update_wolf gives for the
   population as it was when the pass began (no update reads a position written
   in the same pass), and the leaders and the wolves not yet reached are as
   they were; likewise each evaluated wolf of the Evaluate pass depends on its
   own state at the start of the pass only *)
C28_OrderIndependent ==
    /\ gen_pc \in {"update", "end"} =>
          \A i \in DOMAIN gen_wolves :
              gen_wolves[i] =
                  IF i \notin gen_pending
                     /\ ~IsLeader(i, gen_leaders.alpha, gen_leaders.beta,
                                  gen_leaders.delta)
                  THEN UpdateWolf(gen_start[i], gen_start, gen_leaders.alpha,
                                  gen_leaders.beta, gen_leaders.delta, "linear",
                                  MaxIter, 2, gen_iteration)
                  ELSE gen_start[i]
    /\ gen_pc \in {"evaluate", "rank"} =>
          \A i \in DOMAIN gen_wolves :
              gen_wolves[i] =
                  IF i \notin gen_pending
                  THEN UpdatePbest(
                           [gen_start[i] EXCEPT
                               !.fitness = gen_ftab[gen_start[i].position]],
                           gen_ftab[gen_start[i].position])
                  ELSE gen_start[i]

(* an Update pass of the second generation took two non-leaders against the
   order of the population and moved both, the memory term of one not zero *)
C28_Witness ==
    /\ gen_pc = "end"
    /\ gen_iteration = 1
    /\ Len(gen_order) >= 2
    /\ gen_order[1] > gen_order[2]
    /\ \A n \in 1..Len(gen_order) :
          gen_wolves[gen_order[n]].position # gen_start[gen_order[n]].position
    /\ \E n \in 1..Len(gen_order) :
          gen_start[gen_order[n]].pbest # gen_start[gen_order[n]].position

====
